---- MODULE Spec2Model ----
(***************************************************************************)
(* Resumable mutation-test run orchestrator (src/mutation/runner.rs,      *)
(* src/mutation/state.rs): an append-only event log per run, the replay   *)
(* projection of a log into a snapshot, and the three entry points        *)
(* run_new, resume_run and rerun_survivors with the process-wide          *)
(* INTERRUPTED flag set asynchronously by the signal handler.             *)
(***************************************************************************)
EXTENDS Integers, Sequences, FiniteSets, TLC

\* ---------------------------------------------------------------- bounds
\* number of distinct mutant ids the engine may report
MaxMutants == 3
\* number of run directories under the run root
MaxRuns == 1
\* number of invocations that append to a log in one behaviour (invocations
\* that return before their first append are not limited)
MaxInvocations == 2
\* number of run directories already under the run root in RootSpec
RootRuns == 2
\* number of mutants the engine reports to a fresh run in RootSpec
RootMutants == 1
\* number of lines of the log, and of mutant ids in its events, in LogSpec
MaxLog == 4
LogMutants == 2
\* number of mutants the engine reports in TornSpec
TornMutants == 2

\* mutant ids; the integer order stands for the String order of BTreeMap keys
Ids == 1..MaxMutants

\* MutationOutcome (events.rs); Error stands for Error{message}
Outcomes == {"Killed", "Survived", "Timeout", "Unviable", "Skipped", "Error"}

\* outcomes execute_mutant is driven with when it returns Ok (Killed stands
\* for every terminal outcome other than Survived); Err becomes Error
ExecOutcomes == {"Killed", "Survived"}

\* Result<MutantExecutionResult, MutationEngineError> of execute_mutant
EngineResults ==
    [ok : {TRUE}, outcome : ExecOutcomes] \cup {[ok |-> FALSE, outcome |-> "none"]}

\* no call of CargoMutantsEngine::execute_mutant is in progress
NoEngine == [pc |-> "none"]

\* no execute_mutant result is held (outside run_mutant)
NoExecution == [outcome |-> "none", failed |-> FALSE]

VARIABLES
    runs,         \* run root: runs[r] = [file |-> events.jsonl exists, log |-> its
                  \* lines, torn |-> its last line has no trailing newline]
    INTERRUPTED,  \* static INTERRUPTED: AtomicBool
    pc,           \* position of the invoking thread
    op,           \* function whose body is executing (run_new may delegate)
    cur,          \* index of the run the invocation works on (0: none yet)
    queue,        \* mutants / scheduled / survivors vector of the executing function
    idx,          \* 1-based position of the for loop in queue
    startLen,     \* length of the run's log when the function body replayed it
    ret,          \* result of the last returned invocation
    invocations,  \* number of invocations so far that went past their early returns
    created,      \* number of run directories created by run_new so far
    config,       \* the MutationConfig (filter, timeout_secs) the client passes
    execution,    \* run_mutant: what engine.execute_mutant returned
    replayed,     \* resume_run, rerun_survivors: the local `snapshot` replayed on entry
    engine,       \* CargoMutantsEngine::execute_mutant: its call in progress
    INIT          \* install_signal_handler_once: static INIT: OnceLock<Result<(), String>>

vars == <<runs, INTERRUPTED, pc, op, cur, queue, idx, startLen, ret, invocations,
          created, config, execution, replayed, engine, INIT>>

\* ---------------------------------------------------------------- config
\* Option<String> filter and Option<u64> timeout_secs of MutationConfig and of
\* RunConfigSnapshot; "None" is Option::None
Filters == {"None", "add"}
Timeouts == {"None", "30"}
Configs == [filter : Filters, timeout_secs : Timeouts]

\* MutationConfig::default()
DefaultConfig == [filter |-> "None", timeout_secs |-> "None"]

\* info.config of a snapshot whose log holds no RunStarted
NoConfig == [filter |-> "absent", timeout_secs |-> "absent"]

\* ---------------------------------------------------------------- events
\* the run_id field of an event: the id of the run directory that holds the
\* log (what the controller writes), or another run's id
OwnRunId == "own"
OtherRunId == "other"

Ev(t, m, o, c, cfg) ==
    [type |-> t, mutant_id |-> m, outcome |-> o, count |-> c, config |-> cfg,
     run_id |-> OwnRunId]

\* the event e written with run id `id`
WithRunId(e, id) == [e EXCEPT !.run_id = id]

RunStarted(n, cfg) == Ev("RunStarted", 0, "none", n, cfg)
RunResumed(n) == Ev("RunResumed", 0, "none", n, NoConfig)
MutantDiscovered(m) == Ev("MutantDiscovered", m, "none", 0, NoConfig)
MutantStarted(m) == Ev("MutantStarted", m, "none", 0, NoConfig)
MutantFinished(m, o) == Ev("MutantFinished", m, o, 0, NoConfig)
RunInterrupted == Ev("RunInterrupted", 0, "none", 0, NoConfig)
RunCompleted == Ev("RunCompleted", 0, "none", 0, NoConfig)

\* a line that serde_json::from_str::<MutationEvent> rejects
MalformedLine == Ev("Malformed", 0, "none", 0, NoConfig)

\* a line whose bytes are not valid UTF-8 (a write cut inside a multi-byte
\* character, foreign bytes): BufRead::lines() yields Err(InvalidData) for it
UndecodableLine == Ev("Undecodable", 0, "none", 0, NoConfig)

\* ---------------------------------------------------------------- state.rs
is_terminal(status) ==
    status \in {"Killed", "Survived", "Timeout", "Unviable", "Skipped", "Error"}

\* snapshot before any line is read; "Absent" = id not in the BTreeMap
EmptySnapshot ==
    [mutants |-> [m \in Ids |-> "Absent"], interrupted |-> FALSE, completed |-> FALSE,
     config |-> NoConfig, malformed_lines |-> 0, run_id |-> ""]

\* variant: the unparseable line is skipped without being counted
CountMalformed_Uncounted(s) == s

\* the Err arm of serde_json::from_str: malformed_lines += 1; continue
CountMalformed(s) == [s EXCEPT !.malformed_lines = @ + 1]

\* variant: a second RunInterrupted clears the flag
SetInterrupted_Toggled(s) == [s EXCEPT !.interrupted = ~@]

\* the RunInterrupted arm: interrupted = true
SetInterrupted(s) == [s EXCEPT !.interrupted = TRUE]

\* the RunCompleted arm: completed = true
SetCompleted(s) == [s EXCEPT !.completed = TRUE]

\* variant: every RunStarted and RunResumed overwrites the run id
SetRunId_Overwriting(s, id) == [s EXCEPT !.run_id = id]

\* if run_id.is_empty() { run_id = id; }
SetRunId(s, id) == IF s.run_id = "" THEN [s EXCEPT !.run_id = id] ELSE s

\* one arm of the match in replay_events
\* variant: the state of a finished mutant is inserted when the map does
\* not hold its id
Finish_Inserting(s, e) == [s EXCEPT !.mutants[e.mutant_id] = e.outcome]

\* the MutantFinished arm: if let Some(state) = mutants.get_mut(&mutant_id)
Finish(s, e) ==
    IF e.mutant_id \in Ids /\ s.mutants[e.mutant_id] # "Absent"
    THEN [s EXCEPT !.mutants[e.mutant_id] = e.outcome]
    ELSE s

ApplyEvent(s, e) ==
    CASE e.type = "Malformed" -> CountMalformed(s)
      [] e.type = "RunStarted" -> [SetRunId(s, e.run_id) EXCEPT !.config = e.config]
      [] e.type = "RunResumed" -> SetRunId(s, e.run_id)
      [] e.type = "MutantDiscovered" ->
            [s EXCEPT !.mutants[e.mutant_id] = "Pending"]
      [] e.type = "MutantStarted" ->
            IF e.mutant_id \in Ids /\ s.mutants[e.mutant_id] # "Absent"
            THEN [s EXCEPT !.mutants[e.mutant_id] = "Running"]
            ELSE s
      [] e.type = "MutantFinished" -> Finish(s, e)
      [] e.type = "RunInterrupted" -> SetInterrupted(s)
      [] e.type = "RunCompleted" -> SetCompleted(s)
      [] OTHER -> s

RECURSIVE ReplayFrom(_, _, _)
ReplayFrom(s, log, i) ==
    IF i > Len(log) THEN s ELSE ReplayFrom(ApplyEvent(s, log[i]), log, i + 1)

\* replay_events on an existing file: the snapshot of Ok(..)
replay_events(log) == ReplayFrom(EmptySnapshot, log, 1)

\* replay_events on an existing file returns Err: `let line = line?;`
\* propagates the read error of a line that is not valid UTF-8
replay_fails(log) == \E i \in 1..Len(log) : log[i].type = "Undecodable"

\* variant: the map iterated from its greatest key down
RECURSIVE Descending(_)
Descending(S) ==
    IF S = {} THEN <<>>
    ELSE LET m == CHOOSE x \in S : \A y \in S : x >= y
         IN <<m>> \o Descending(S \ {m})

\* BTreeMap::values(): ascending key order
RECURSIVE Ascending(_)
Ascending(S) ==
    IF S = {} THEN <<>>
    ELSE LET m == CHOOSE x \in S : \A y \in S : x <= y
         IN <<m>> \o Ascending(S \ {m})

\* variant: the terminal filter is missing
pending_mutants_Unfiltered(s) ==
    Ascending({m \in Ids : s.mutants[m] # "Absent"})

\* variant: only the mutants never started are selected
pending_mutants_PendingOnly(s) ==
    Ascending({m \in Ids : s.mutants[m] = "Pending"})

pending_mutants(s) ==
    Ascending({m \in Ids : s.mutants[m] # "Absent" /\ ~is_terminal(s.mutants[m])})

\* variant: the unfinished mutants are selected as well
survivor_mutants_WithPending(s) ==
    Ascending({m \in Ids : s.mutants[m] \in {"Survived", "Pending", "Running"}})

survivor_mutants(s) ==
    Ascending({m \in Ids : s.mutants[m] = "Survived"})

\* ---------------------------------------------------------------- runner.rs
Range(q) == {q[i] : i \in 1..Len(q)}

\* variant: a missing final newline is supplied before the event is written
append_event_OnNewLine(rs, r, e) ==
    [rs EXCEPT ![r].file = TRUE, ![r].log = Append(@, e), ![r].torn = FALSE]

\* append_event: creates the file if needed and writes the event's JSON and
\* a newline at the end of the file; after an unterminated last line the
\* JSON continues that line, which then holds no single JSON value
append_event(rs, r, e) ==
    IF rs[r].torn
    THEN [rs EXCEPT ![r].file = TRUE,
                    ![r].log = [@ EXCEPT ![Len(@)] = MalformedLine],
                    ![r].torn = FALSE]
    ELSE [rs EXCEPT ![r].file = TRUE, ![r].log = Append(@, e), ![r].torn = FALSE]

\* append_event cut short by the death of the process: write_all wrote a
\* part of the JSON (line = MalformedLine) or all of it (line = the event),
\* and no newline
torn_append(rs, r, line) ==
    IF rs[r].torn
    THEN [rs EXCEPT ![r].file = TRUE,
                    ![r].log = [@ EXCEPT ![Len(@)] = MalformedLine],
                    ![r].torn = TRUE]
    ELSE [rs EXCEPT ![r].file = TRUE, ![r].log = Append(@, line), ![r].torn = TRUE]

NoResult == [kind |-> "none", run |-> 0, snapshot |-> EmptySnapshot, error |-> "none"]
OkResult(r, s) == [kind |-> "ok", run |-> r, snapshot |-> s, error |-> "none"]
\* Err(MutationRunError::e), e one of State, Engine, Io, Signal
ErrResult(r, e) == [kind |-> "err", run |-> r, snapshot |-> EmptySnapshot, error |-> e]

\* Option::as_ref().and_then(..): a missing info.config reads as None
SnapshotFilter(snapshot) ==
    IF snapshot.config = NoConfig THEN "None" ELSE snapshot.config.filter

SnapshotTimeout(snapshot) ==
    IF snapshot.config = NoConfig THEN "None" ELSE snapshot.config.timeout_secs

\* variant: only the filter is compared
is_snapshot_compatible_FilterOnly(snapshot, cfg) ==
    SnapshotFilter(snapshot) = cfg.filter

is_snapshot_compatible(snapshot, cfg) ==
    IF SnapshotFilter(snapshot) # cfg.filter
    THEN FALSE
    ELSE SnapshotTimeout(snapshot) = cfg.timeout_secs

\* a run directory is a resume candidate of run_new (runner.rs:178-190)
IsIncompleteRun(run, cfg) ==
    /\ run.file
    /\ LET snapshot == replay_events(run.log)
       IN /\ ~(snapshot.completed \/ pending_mutants(snapshot) = <<>>)
          /\ is_snapshot_compatible(snapshot, cfg)

\* variant: the survivor test is missing
IsCompletedRunWithSurvivors_AnyCompleted(run, cfg) ==
    /\ run.file
    /\ LET snapshot == replay_events(run.log)
       IN snapshot.completed /\ is_snapshot_compatible(snapshot, cfg)

\* a run directory is a survivor re-test candidate of run_new (runner.rs:226-238)
IsCompletedRunWithSurvivors(run, cfg) ==
    /\ run.file
    /\ LET snapshot == replay_events(run.log)
       IN /\ ~(~snapshot.completed \/ survivor_mutants(snapshot) = <<>>)
          /\ is_snapshot_compatible(snapshot, cfg)

\* a directory name is the sequence of its parts between '-', a part the
\* sequence of its characters
Digits == <<"0", "1", "2", "3", "4", "5", "6", "7", "8", "9">>

DigitValue(c) == (CHOOSE d \in 1..10 : Digits[d] = c) - 1

\* format!("{}", n) of a non-negative integer
RECURSIVE Decimal(_)
Decimal(n) == IF n < 10 THEN <<Digits[n + 1]>> ELSE Decimal(n \div 10) \o <<Digits[(n % 10) + 1]>>

\* str::parse of an unsigned decimal; -1 = Err
RECURSIVE ParseDigits(_, _)
ParseDigits(part, acc) ==
    IF part = <<>> THEN acc
    ELSE IF Head(part) \notin Range(Digits) THEN -1
    ELSE ParseDigits(Tail(part), 10 * acc + DigitValue(Head(part)))

ParseNumber(part) == IF part = <<>> THEN -1 ELSE ParseDigits(part, 0)

RunPrefix == <<"r", "u", "n">>

\* the process id; one value stands for the processes of a behaviour, whose
\* run ids differ in the timestamp already
ProcessId == 1

\* generate_run_id: the n-th run id made on a run root; the clock and
\* RUN_SEQUENCE advance from one run to the next
generate_run_id(n) == <<RunPrefix, Decimal(n), Decimal(ProcessId), Decimal(n)>>

\* Option<RunIdKey>: None
NoKey == [some |-> FALSE, timestamp_ms |-> 0, pid |-> 0, sequence |-> 0]

\* parse_run_id_key: the first part is "run", the next three parse as
\* numbers; parts after the fourth are not looked at
parse_run_id_key(run_id) ==
    IF Len(run_id) < 4 \/ run_id[1] # RunPrefix THEN NoKey
    ELSE LET timestamp_ms == ParseNumber(run_id[2])
             pid == ParseNumber(run_id[3])
             sequence == ParseNumber(run_id[4])
         IN IF timestamp_ms = -1 \/ pid = -1 \/ sequence = -1 THEN NoKey
            ELSE [some |-> TRUE, timestamp_ms |-> timestamp_ms, pid |-> pid,
                  sequence |-> sequence]

\* variant: only the timestamps are compared
is_newer_run_id_TimestampOnly(candidate, current) ==
    candidate.timestamp_ms > current.timestamp_ms

\* variant: the comparison is reversed
is_newer_run_id_Reversed(candidate, current) ==
    \/ candidate.timestamp_ms < current.timestamp_ms
    \/ candidate.timestamp_ms = current.timestamp_ms /\ candidate.pid < current.pid
    \/ /\ candidate.timestamp_ms = current.timestamp_ms
       /\ candidate.pid = current.pid
       /\ candidate.sequence < current.sequence

\* is_newer_run_id: numeric lexicographic order of (timestamp_ms, pid, sequence)
is_newer_run_id(candidate, current) ==
    \/ candidate.timestamp_ms > current.timestamp_ms
    \/ candidate.timestamp_ms = current.timestamp_ms /\ candidate.pid > current.pid
    \/ /\ candidate.timestamp_ms = current.timestamp_ms
       /\ candidate.pid = current.pid
       /\ candidate.sequence > current.sequence

\* run directories with these contents, named as generate_run_id named them
InRoot(contents) ==
    [i \in 1..Len(contents) |->
        [file |-> contents[i].file, log |-> contents[i].log, torn |-> contents[i].torn,
         name |-> generate_run_id(i)]]

\* orders in which read_dir may yield the entries of a run root of n runs
ReadDirOrders(n) ==
    {o \in [1..n -> 1..n] : \A i, j \in 1..n : i # j => o[i] # o[j]}

\* the loop over read_dir keeping the newest eligible run; 0 = None.
\* eligible[r] tells whether run r passed the snapshot tests of the loop,
\* order[i] is the i-th entry read_dir yields; an entry whose name has no
\* key is skipped before its log is read
RECURSIVE NewestFrom(_, _, _, _, _)
NewestFrom(rs, eligible, order, i, newest) ==
    IF i > Len(order) THEN newest
    ELSE LET run_id_key == parse_run_id_key(rs[order[i]].name)
         IN IF ~run_id_key.some THEN NewestFrom(rs, eligible, order, i + 1, newest)
            ELSE IF ~eligible[order[i]] THEN NewestFrom(rs, eligible, order, i + 1, newest)
            ELSE IF newest = 0 \/ is_newer_run_id(run_id_key, parse_run_id_key(rs[newest].name))
                 THEN NewestFrom(rs, eligible, order, i + 1, order[i])
                 ELSE NewestFrom(rs, eligible, order, i + 1, newest)

latest_incomplete_run_id(rs, cfg, order) ==
    NewestFrom(rs, [i \in 1..Len(rs) |-> IsIncompleteRun(rs[i], cfg)], order, 1, 0)

latest_completed_run_with_survivors_id(rs, cfg, order) ==
    NewestFrom(rs, [i \in 1..Len(rs) |-> IsCompletedRunWithSurvivors(rs[i], cfg)],
               order, 1, 0)

\* variant: the pending queue is put in front of the survivors
ResumeSchedule_PendingFirst(snapshot) ==
    LET survivors == survivor_mutants(snapshot)
        pending == pending_mutants(snapshot)
    IN IF ~snapshot.completed
       THEN pending \o SelectSeq(survivors, LAMBDA m : m \notin Range(pending))
       ELSE survivors

\* the work queue of resume_run (runner.rs:455-463)
ResumeSchedule(snapshot) ==
    LET survivors == survivor_mutants(snapshot)
        pending == pending_mutants(snapshot)
    IN IF ~snapshot.completed
       THEN survivors \o SelectSeq(pending, LAMBDA m : m \notin Range(survivors))
       ELSE survivors

\* variant: the survivor test is inverted
ResumeReturnsEarly_Inverted(snapshot) ==
    snapshot.completed /\ survivor_mutants(snapshot) # <<>>

\* resume_run returns the replayed snapshot without touching the log
ResumeReturnsEarly(snapshot) ==
    snapshot.completed /\ survivor_mutants(snapshot) = <<>>

\* rerun_survivors returns the replayed snapshot without touching the log
RerunReturnsEarly(snapshot) == survivor_mutants(snapshot) = <<>>

\* variants of the guard: the flag is not consulted / resume_run is left out
AppendsRunCompleted_IgnoringFlag(f, interrupted) ==
    f \in {"run_new", "resume_run"}

AppendsRunCompleted_RunNewOnly(f, interrupted) ==
    f = "run_new" /\ ~interrupted

\* the check after the loop that guards the RunCompleted append
AppendsRunCompleted(f, interrupted) ==
    f \in {"run_new", "resume_run"} /\ ~interrupted

\* results of discover_mutants: vectors of distinct ids (ids hash the line index)
DiscoverResults ==
    {q \in UNION {[1..n -> Ids] : n \in 0..MaxMutants} :
        \A i, j \in 1..Len(q) : i # j => q[i] # q[j]}

\* the invocation goes past its early returns (used only to bound behaviours)
ResumeAppends(run) == run.file /\ ~ResumeReturnsEarly(replay_events(run.log))

RerunAppends(run) == run.file /\ ~RerunReturnsEarly(replay_events(run.log))

\* INIT before the first entry point is called in a process; occupied tells
\* whether ctrlc::set_handler fails in this process (a handler is registered
\* already, or the system refuses), calls counts the set_handler calls
NoHandler == [value |-> "unset", calls |-> 0, occupied |-> FALSE]

\* variant: a failed installation is attempted again by the next call
install_signal_handler_once_Retry(init) ==
    IF init.value # "ok"
    THEN [init EXCEPT !.value = IF init.occupied THEN "failed" ELSE "ok",
                      !.calls = @ + 1]
    ELSE init

\* install_signal_handler_once: INIT.get_or_init(|| ctrlc::set_handler(..))
install_signal_handler_once(init) ==
    IF init.value = "unset"
    THEN [init EXCEPT !.value = IF init.occupied THEN "failed" ELSE "ok",
                      !.calls = @ + 1]
    ELSE init

Init ==
    /\ runs = <<>>
    /\ INTERRUPTED = FALSE
    /\ pc = "idle"
    /\ op = "none"
    /\ cur = 0
    /\ queue = <<>>
    /\ idx = 0
    /\ startLen = 0
    /\ ret = NoResult
    /\ invocations = 0
    /\ created = 0
    /\ config = DefaultConfig
    /\ execution = NoExecution
    /\ replayed = EmptySnapshot
    /\ engine = NoEngine
    /\ INIT = NoHandler

\* run_new, resume_run, rerun_survivors
EntryPoints == {"run_new", "resume_run", "rerun_survivors"}

\* entry point f: install_signal_handler_once()? returns Err(Signal(msg))
SignalError(f) ==
    /\ pc = "idle"
    /\ install_signal_handler_once(INIT).value = "failed"
    /\ INIT' = install_signal_handler_once(INIT)
    /\ op' = f
    /\ cur' = 0
    /\ queue' = <<>>
    /\ idx' = 0
    /\ startLen' = 0
    /\ ret' = ErrResult(0, "Signal")
    /\ replayed' = EmptySnapshot
    /\ UNCHANGED <<runs, INTERRUPTED, pc, invocations, created, config, execution, engine>>

\* the signal handler (or any thread) stores true into INTERRUPTED
Interrupt ==
    /\ ~INTERRUPTED
    /\ INTERRUPTED' = TRUE
    /\ UNCHANGED <<runs, pc, op, cur, queue, idx, startLen, ret, invocations, created, config, execution,
                   replayed, engine, INIT>>

\* variant: the store is missing
ResetFlag_Missing == UNCHANGED INTERRUPTED

\* INTERRUPTED.store(false, Ordering::SeqCst) at the start of an entry point
ResetFlag == INTERRUPTED' = FALSE

\* run_new up to the flag reset
RunNewEnter ==
    /\ pc = "idle"
    /\ invocations < MaxInvocations
    /\ \/ \E r \in 1..Len(runs) :
             IsIncompleteRun(runs[r], config) \/ IsCompletedRunWithSurvivors(runs[r], config)
       \/ created < MaxRuns
    /\ install_signal_handler_once(INIT).value = "ok"
    /\ INIT' = install_signal_handler_once(INIT)
    /\ ResetFlag
    /\ pc' = "scan"
    /\ op' = "run_new"
    /\ cur' = 0
    /\ queue' = <<>>
    /\ idx' = 0
    /\ startLen' = 0
    /\ ret' = NoResult
    /\ invocations' = invocations + 1
    /\ replayed' = EmptySnapshot
    /\ UNCHANGED <<runs, created, config, execution, engine>>

\* run_new: the two scans of the run root, delegation, or a fresh run directory
RunNewScan ==
    /\ pc = "scan"
    /\ \E order1, order2 \in ReadDirOrders(Len(runs)) :
         LET inc == latest_incomplete_run_id(runs, config, order1)
             comp == latest_completed_run_with_survivors_id(runs, config, order2)
         IN IF inc # 0
            THEN /\ pc' = "resume_enter"
                 /\ cur' = inc
                 /\ UNCHANGED <<runs, created>>
            ELSE IF comp # 0
            THEN /\ pc' = "rerun_enter"
                 /\ cur' = comp
                 /\ UNCHANGED <<runs, created>>
            ELSE /\ pc' = "discover"
                 /\ cur' = Len(runs) + 1
                 /\ runs' = Append(runs, [file |-> FALSE, log |-> <<>>, torn |-> FALSE,
                                          name |-> generate_run_id(Len(runs) + 1)])
                 /\ created' = created + 1
    /\ UNCHANGED <<INTERRUPTED, op, queue, idx, startLen, ret, invocations, config,
                   execution,
                   replayed, engine, INIT>>

\* the characters of a filter string
FilterText(filter) ==
    CASE filter = "add" -> <<"a", "d", "d">>
      [] filter = "bed" -> <<"b", "e", "d">>
      [] OTHER -> <<>>

\* id, label and selector of the MutantSpec with id m: mutants that hold the
\* filter "add" in the label only, in the selector only, and nowhere (with
\* parts of it in each field); the last one holds the filter "bed" in its
\* hashed id only
MutantText(m) ==
    CASE m % 3 = 1 -> [id |-> <<"m", "1">>, label |-> <<"x", "a", "d", "d">>, selector |-> <<"x">>]
      [] m % 3 = 2 -> [id |-> <<"m", "2">>, label |-> <<"a", "d">>, selector |-> <<"a", "d", "d", "x">>]
      [] OTHER -> [id |-> <<"m", "b", "e", "d">>, label |-> <<"d", "d">>,
                   selector |-> <<"a", "d", "a", "d">>]

\* str::contains
Contains(text, pattern) ==
    \E i \in 0..(Len(text) - Len(pattern)) :
        SubSeq(text, i + 1, i + Len(pattern)) = pattern

\* variant: only the label is searched
Matches_LabelOnly(m, filter) == Contains(MutantText(m).label, FilterText(filter))

\* the closure of mutants.retain (runner.rs:337-339)
Matches(m, filter) ==
    \/ Contains(MutantText(m).id, FilterText(filter))
    \/ Contains(MutantText(m).label, FilterText(filter))
    \/ Contains(MutantText(m).selector, FilterText(filter))

\* run_new: discover_mutants returns its vector (of at most n mutants)
DiscoverUpTo(n) ==
    /\ pc = "discover"
    /\ \E found \in {q \in DiscoverResults : Len(q) <= n} : queue' = found
    /\ idx' = 0
    /\ pc' = "filter"
    /\ UNCHANGED <<runs, INTERRUPTED, op, cur, startLen, ret, invocations, created, config, execution,
                   replayed, engine, INIT>>

\* the vector `mutants` after the retain of run_new
Retained(mutants, cfg) ==
    IF cfg.filter = "None" THEN mutants
    ELSE SelectSeq(mutants, LAMBDA m : Matches(m, cfg.filter))

\* run_new: the substring filter and the RunStarted append
RetainAndStart ==
    /\ pc = "filter"
    /\ runs' = append_event(runs, cur, RunStarted(Len(Retained(queue, config)), config))
    /\ queue' = Retained(queue, config)
    /\ idx' = 1
    /\ pc' = "discovered"
    /\ UNCHANGED <<INTERRUPTED, op, cur, startLen, ret, invocations, created, config, execution,
                   replayed, engine, INIT>>

Discover == DiscoverUpTo(MaxMutants)

\* run_new: discover_mutants returned Err, propagated by `?`
DiscoverFails ==
    /\ pc = "discover"
    /\ pc' = "idle"
    /\ ret' = ErrResult(cur, "Engine")
    /\ UNCHANGED <<runs, INTERRUPTED, op, cur, queue, idx, startLen, invocations, created, config, execution,
                   replayed, engine, INIT>>

\* run_new: one iteration of the MutantDiscovered loop, or its exit
AppendDiscovered ==
    /\ pc = "discovered"
    /\ IF idx <= Len(queue)
       THEN /\ runs' = append_event(runs, cur, MutantDiscovered(queue[idx]))
            /\ idx' = idx + 1
            /\ pc' = "discovered"
       ELSE /\ idx' = 1
            /\ pc' = "poll"
            /\ UNCHANGED runs
    /\ UNCHANGED <<INTERRUPTED, op, cur, queue, startLen, ret, invocations, created, config, execution,
                   replayed, engine, INIT>>

\* resume_run called by run_new on the run it selected
ResumeDelegated(r) ==
    /\ pc = "resume_enter"
    /\ r = cur
    /\ UNCHANGED invocations

\* resume_run called by the client
ResumeCalled(r) ==
    /\ pc = "idle"
    /\ IF ResumeAppends(runs[r])
       THEN invocations < MaxInvocations /\ invocations' = invocations + 1
       ELSE UNCHANGED invocations

\* resume_run up to the loop
ResumeBody(r) ==
    /\ install_signal_handler_once(INIT).value = "ok"
    /\ INIT' = install_signal_handler_once(INIT)
    /\ ResetFlag
    /\ UNCHANGED <<created, config, execution, engine>>
    /\ op' = "resume_run"
    /\ cur' = r
    /\ replayed' = IF runs[r].file THEN replay_events(runs[r].log) ELSE EmptySnapshot
    /\ IF ~runs[r].file
       THEN /\ pc' = "idle"
            /\ ret' = ErrResult(r, "State")
            /\ queue' = <<>>
            /\ idx' = 0
            /\ startLen' = 0
            /\ UNCHANGED runs
       ELSE LET snapshot == replay_events(runs[r].log)
                scheduled == ResumeSchedule(snapshot)
            IN IF ResumeReturnsEarly(snapshot)
               THEN /\ pc' = "idle"
                    /\ ret' = OkResult(r, snapshot)
                    /\ queue' = <<>>
                    /\ idx' = 0
                    /\ startLen' = Len(runs[r].log)
                    /\ UNCHANGED runs
               ELSE /\ runs' = append_event(runs, r, RunResumed(Len(scheduled)))
                    /\ queue' = scheduled
                    /\ idx' = 1
                    /\ startLen' = Len(runs[r].log)
                    /\ pc' = "poll"
                    /\ ret' = NoResult

ResumeEnter(r) == (ResumeCalled(r) \/ ResumeDelegated(r)) /\ ResumeBody(r)

\* rerun_survivors called by run_new on the run it selected
RerunDelegated(r) ==
    /\ pc = "rerun_enter"
    /\ r = cur
    /\ UNCHANGED invocations

\* rerun_survivors called by the client
RerunCalled(r) ==
    /\ pc = "idle"
    /\ IF RerunAppends(runs[r])
       THEN invocations < MaxInvocations /\ invocations' = invocations + 1
       ELSE UNCHANGED invocations

\* rerun_survivors up to the loop
RerunBody(r) ==
    /\ install_signal_handler_once(INIT).value = "ok"
    /\ INIT' = install_signal_handler_once(INIT)
    /\ ResetFlag
    /\ UNCHANGED <<created, config, execution, engine>>
    /\ op' = "rerun_survivors"
    /\ cur' = r
    /\ replayed' = IF runs[r].file THEN replay_events(runs[r].log) ELSE EmptySnapshot
    /\ IF ~runs[r].file
       THEN /\ pc' = "idle"
            /\ ret' = ErrResult(r, "State")
            /\ queue' = <<>>
            /\ idx' = 0
            /\ startLen' = 0
            /\ UNCHANGED runs
       ELSE LET snapshot == replay_events(runs[r].log)
                survivors == survivor_mutants(snapshot)
            IN IF RerunReturnsEarly(snapshot)
               THEN /\ pc' = "idle"
                    /\ ret' = OkResult(r, snapshot)
                    /\ queue' = <<>>
                    /\ idx' = 0
                    /\ startLen' = Len(runs[r].log)
                    /\ UNCHANGED runs
               ELSE /\ runs' = append_event(runs, r, RunResumed(Len(survivors)))
                    /\ queue' = survivors
                    /\ idx' = 1
                    /\ startLen' = Len(runs[r].log)
                    /\ pc' = "poll"
                    /\ ret' = NoResult

RerunEnter(r) == (RerunCalled(r) \/ RerunDelegated(r)) /\ RerunBody(r)

\* head of the execution loop: loop exit, or the INTERRUPTED load before a mutant
Poll ==
    /\ pc = "poll"
    /\ IF idx > Len(queue)
       THEN /\ pc' = "after"
            /\ UNCHANGED runs
       ELSE IF INTERRUPTED
       THEN /\ runs' = append_event(runs, cur, RunInterrupted)
            /\ pc' = "after"
       ELSE /\ pc' = "start"
            /\ UNCHANGED runs
    /\ UNCHANGED <<INTERRUPTED, op, cur, queue, idx, startLen, ret, invocations, created, config, execution,
                   replayed, engine, INIT>>

\* run_mutant: the MutantStarted append
StartMutant ==
    /\ pc = "start"
    /\ runs' = append_event(runs, cur, MutantStarted(queue[idx]))
    /\ pc' = "exec"
    /\ UNCHANGED <<INTERRUPTED, op, cur, queue, idx, startLen, ret, invocations, created, config, execution,
                   replayed, engine, INIT>>

\* variant: the engine's Err is propagated with `?`
ExecuteMutant_PropagatesErr ==
    /\ pc = "exec"
    /\ \E r \in EngineResults :
         IF r.ok
         THEN /\ execution' = [outcome |-> r.outcome, failed |-> FALSE]
              /\ pc' = "artifacts"
              /\ UNCHANGED ret
         ELSE /\ execution' = NoExecution
              /\ pc' = "idle"
              /\ ret' = ErrResult(cur, "Engine")
    /\ UNCHANGED <<runs, INTERRUPTED, op, cur, queue, idx, startLen, invocations,
                   created, config,
                   replayed, engine, INIT>>

\* run_mutant: engine.execute_mutant returns; the match turns Err(err) into
\* a result with outcome Error
ExecuteMutant ==
    /\ pc = "exec"
    /\ \E r \in EngineResults :
         execution' = [outcome |-> IF r.ok THEN r.outcome ELSE "Error", failed |-> ~r.ok]
    /\ pc' = "artifacts"
    /\ UNCHANGED <<runs, INTERRUPTED, op, cur, queue, idx, startLen, ret, invocations,
                   created, config,
                   replayed, engine, INIT>>

\* variant: the flag is also read while the mutant executes, and the
\* interrupt recorded before the mutant's MutantFinished
FinishMutant_RecordsInterrupt ==
    /\ pc = "artifacts"
    /\ runs' = append_event(IF INTERRUPTED THEN append_event(runs, cur, RunInterrupted) ELSE runs,
                            cur, MutantFinished(queue[idx], execution.outcome))
    /\ idx' = idx + 1
    /\ pc' = "poll"
    /\ execution' = NoExecution
    /\ UNCHANGED <<INTERRUPTED, op, cur, queue, startLen, ret, invocations, created, config,
                   replayed, engine, INIT>>

\* run_mutant: the artifacts are written and MutantFinished is appended
FinishMutant ==
    /\ pc = "artifacts"
    /\ runs' = append_event(runs, cur, MutantFinished(queue[idx], execution.outcome))
    /\ idx' = idx + 1
    /\ pc' = "poll"
    /\ execution' = NoExecution
    /\ UNCHANGED <<INTERRUPTED, op, cur, queue, startLen, ret, invocations, created, config,
                   replayed, engine, INIT>>

\* run_mutant: write_mutant_artifacts fails and `?` returns the Io error
\* through the loop to the caller
ArtifactsFail ==
    /\ pc = "artifacts"
    /\ pc' = "idle"
    /\ ret' = ErrResult(cur, "Io")
    /\ execution' = NoExecution
    /\ UNCHANGED <<runs, INTERRUPTED, op, cur, queue, idx, startLen, invocations, created, config,
                   replayed, engine, INIT>>

\* after the loop: the guarded RunCompleted append, the final replay, Ok(..)
AfterLoop ==
    /\ pc = "after"
    /\ LET rs == IF AppendsRunCompleted(op, INTERRUPTED)
                 THEN append_event(runs, cur, RunCompleted)
                 ELSE runs
       IN /\ runs' = rs
          /\ ret' = OkResult(cur, replay_events(rs[cur].log))
    /\ pc' = "idle"
    /\ UNCHANGED <<INTERRUPTED, op, cur, queue, idx, startLen, invocations, created, config, execution,
                   replayed, engine, INIT>>

\* the process dies inside an invocation; the next process starts with the
\* flag's static initial value
Crash ==
    /\ pc # "idle"
    /\ pc' = "idle"
    /\ INTERRUPTED' = FALSE
    /\ op' = "none"
    /\ cur' = 0
    /\ queue' = <<>>
    /\ idx' = 0
    /\ startLen' = 0
    /\ ret' = NoResult
    /\ execution' = NoExecution
    /\ replayed' = EmptySnapshot
    /\ INIT' = [NoHandler EXCEPT !.occupied = INIT.occupied]
    /\ UNCHANGED <<runs, invocations, created, config, engine>>

\* the event the thread's next step appends, if it appends one
NextAppends ==
    CASE pc = "filter" -> {RunStarted(Len(Retained(queue, config)), config)}
      [] pc = "discovered" /\ idx <= Len(queue) -> {MutantDiscovered(queue[idx])}
      [] pc = "resume_enter" /\ ResumeAppends(runs[cur]) ->
            {RunResumed(Len(ResumeSchedule(replay_events(runs[cur].log))))}
      [] pc = "rerun_enter" /\ RerunAppends(runs[cur]) ->
            {RunResumed(Len(survivor_mutants(replay_events(runs[cur].log))))}
      [] pc = "poll" /\ idx <= Len(queue) /\ INTERRUPTED -> {RunInterrupted}
      [] pc = "start" -> {MutantStarted(queue[idx])}
      [] pc = "artifacts" -> {MutantFinished(queue[idx], execution.outcome)}
      [] pc = "after" /\ AppendsRunCompleted(op, INTERRUPTED) -> {RunCompleted}
      [] OTHER -> {}

\* the process dies inside the append_event of its next step, leaving an
\* unterminated last line
TornCrash ==
    /\ pc # "idle"
    /\ \E e \in NextAppends, line \in {"part", "all"} :
         runs' = torn_append(runs, cur, IF line = "part" THEN MalformedLine ELSE e)
    /\ pc' = "idle"
    /\ INTERRUPTED' = FALSE
    /\ op' = "none"
    /\ cur' = 0
    /\ queue' = <<>>
    /\ idx' = 0
    /\ startLen' = 0
    /\ ret' = NoResult
    /\ execution' = NoExecution
    /\ replayed' = EmptySnapshot
    /\ INIT' = [NoHandler EXCEPT !.occupied = INIT.occupied]
    /\ UNCHANGED <<invocations, created, config, engine>>

Next ==
    \/ Interrupt
    \/ RunNewEnter
    \/ RunNewScan
    \/ Discover
    \/ RetainAndStart
    \/ DiscoverFails
    \/ AppendDiscovered
    \/ \E r \in 1..Len(runs) : ResumeEnter(r)
    \/ \E r \in 1..Len(runs) : RerunEnter(r)
    \/ Poll
    \/ StartMutant
    \/ ExecuteMutant
    \/ FinishMutant
    \/ ArtifactsFail
    \/ AfterLoop
    \/ Crash

Spec == Init /\ [][Next]_vars

\* ---------------------------------------------------------------- torn logs
\* as Next, with the engine reporting at most TornMutants mutants and with
\* processes dying inside append_event
TornNext ==
    \/ Interrupt
    \/ RunNewEnter
    \/ RunNewScan
    \/ DiscoverUpTo(TornMutants)
    \/ RetainAndStart
    \/ DiscoverFails
    \/ AppendDiscovered
    \/ \E r \in 1..Len(runs) : ResumeEnter(r)
    \/ \E r \in 1..Len(runs) : RerunEnter(r)
    \/ Poll
    \/ StartMutant
    \/ ExecuteMutant
    \/ FinishMutant
    \/ ArtifactsFail
    \/ AfterLoop
    \/ Crash
    \/ TornCrash

TornSpec == Init /\ [][TornNext]_vars

\* ---------------------------------------------------------------- run roots
\* logs left by earlier run_new invocations that were given config cfg:
\* interrupted after one mutant, killed after a MutantStarted, interrupted
\* with a survivor, completed with a survivor, completed with all killed
InterruptedLog(cfg) ==
    <<RunStarted(2, cfg), MutantDiscovered(1), MutantDiscovered(2),
      MutantStarted(1), MutantFinished(1, "Killed"), RunInterrupted>>

CrashedLog(cfg) ==
    <<RunStarted(2, cfg), MutantDiscovered(1), MutantDiscovered(2), MutantStarted(1)>>

InterruptedSurvivorLog(cfg) ==
    <<RunStarted(2, cfg), MutantDiscovered(1), MutantDiscovered(2),
      MutantStarted(1), MutantFinished(1, "Survived"), RunInterrupted>>

SurvivorLog(cfg) ==
    <<RunStarted(2, cfg), MutantDiscovered(1), MutantDiscovered(2),
      MutantStarted(1), MutantFinished(1, "Killed"),
      MutantStarted(2), MutantFinished(2, "Survived"), RunCompleted>>

KilledLog(cfg) ==
    <<RunStarted(1, cfg), MutantDiscovered(1),
      MutantStarted(1), MutantFinished(1, "Killed"), RunCompleted>>

RootLogs ==
    UNION {{InterruptedLog(cfg), CrashedLog(cfg), InterruptedSurvivorLog(cfg),
            SurvivorLog(cfg), KilledLog(cfg)} : cfg \in Configs}

\* a run directory: with a log of an earlier invocation, or left without an
\* events file by a run_new that failed before its first append
RootDirs ==
    {[file |-> FALSE, log |-> <<>>, torn |-> FALSE]}
        \cup {[file |-> TRUE, log |-> l, torn |-> FALSE] : l \in RootLogs}

\* ---------------------------------------------------------------- one log
\* mutant ids and events written to the log in LogSpec
LogIds == 1..LogMutants

LogEvents ==
    {RunStarted(0, DefaultConfig), RunResumed(0), RunInterrupted, RunCompleted}
        \cup {WithRunId(RunStarted(0, DefaultConfig), OtherRunId),
              WithRunId(RunResumed(0), OtherRunId)}
        \cup {MutantDiscovered(m) : m \in LogIds}
        \cup {MutantStarted(m) : m \in LogIds}
        \cup {MutantFinished(m, o) : m \in LogIds, o \in ExecOutcomes}

\* one run directory whose events file does not exist yet
LogInit ==
    /\ runs = InRoot(<<[file |-> FALSE, log |-> <<>>, torn |-> FALSE]>>)
    /\ INTERRUPTED = FALSE
    /\ pc = "idle"
    /\ op = "none"
    /\ cur = 1
    /\ queue = <<>>
    /\ idx = 0
    /\ startLen = 0
    /\ ret = NoResult
    /\ invocations = 0
    /\ created = 0
    /\ config = DefaultConfig
    /\ execution = NoExecution
    /\ replayed = EmptySnapshot
    /\ engine = NoEngine
    /\ INIT = NoHandler

\* a caller of the public append_event appends any event and gets Ok
AppendEvent ==
    /\ Len(runs[1].log) < MaxLog
    /\ \E e \in LogEvents : runs' = append_event(runs, 1, e)
    /\ UNCHANGED <<INTERRUPTED, pc, op, cur, queue, idx, startLen, ret, invocations,
                   created, config, execution,
                   replayed, engine, INIT>>

\* the process is killed inside append_event: write_all wrote part of the
\* JSON, or all of it but not yet the newline
TornAppend ==
    /\ Len(runs[1].log) < MaxLog
    /\ \E line \in LogEvents \cup {MalformedLine} : runs' = torn_append(runs, 1, line)
    /\ UNCHANGED <<INTERRUPTED, pc, op, cur, queue, idx, startLen, ret, invocations,
                   created, config, execution,
                   replayed, engine, INIT>>

\* variant: a missing events file is read as an empty one
load_run_status_MissingIsEmpty(rs, r) ==
    IF replay_fails(rs[r].log)
    THEN ErrResult(r, "State")
    ELSE OkResult(r, replay_events(rs[r].log))

\* load_run_status: Ok(replay_events(&events)?); File::open fails on a
\* missing file
load_run_status(rs, r) ==
    IF rs[r].file /\ ~replay_fails(rs[r].log)
    THEN OkResult(r, replay_events(rs[r].log))
    ELSE ErrResult(r, "State")

\* load_run_status on the one run of LogSpec
LoadRunStatus ==
    /\ ret' = load_run_status(runs, 1)
    /\ UNCHANGED <<runs, INTERRUPTED, pc, op, cur, queue, idx, startLen, invocations,
                   created, config, execution,
                   replayed, engine, INIT>>

LogNext ==
    \/ AppendEvent
    \/ TornAppend
    \/ LoadRunStatus

LogSpec == LogInit /\ [][LogNext]_vars

\* ---------------------------------------------------------------- raw lines
\* a writer other than append_event adds one line and its newline to the
\* events file: text that is no MutationEvent, or bytes that are no text
WriteLine ==
    /\ runs[1].file
    /\ ~runs[1].torn
    /\ Len(runs[1].log) < MaxLog
    /\ \E line \in {MalformedLine, UndecodableLine} :
          runs' = [runs EXCEPT ![1].log = Append(@, line)]
    /\ UNCHANGED <<INTERRUPTED, pc, op, cur, queue, idx, startLen, ret, invocations,
                   created, config, execution,
                   replayed, engine, INIT>>

TailNext ==
    \/ AppendEvent
    \/ WriteLine
    \/ LoadRunStatus

TailSpec == LogInit /\ [][TailNext]_vars

\* ---------------------------------------------------------------- status
\* a run directory whose events file exists and is empty (a process died in
\* append_event between the creating open and the first write_all)
EmptyLogDir == [file |-> TRUE, log |-> <<>>, torn |-> FALSE]

\* load_run_status called by the client on run r
LoadRunStatusOf(r) ==
    /\ pc = "idle"
    /\ op' = "load_run_status"
    /\ cur' = r
    /\ ret' = load_run_status(runs, r)
    /\ queue' = <<>>
    /\ idx' = 0
    /\ startLen' = Len(runs[r].log)
    /\ replayed' = EmptySnapshot
    /\ UNCHANGED <<runs, INTERRUPTED, pc, invocations, created, config, execution, engine, INIT>>

\* render_run_report: load_run_status(..)? and the rendering of its snapshot
\* (the report text is represented by the snapshot it renders)
RenderRunReport(r) ==
    /\ pc = "idle"
    /\ op' = "render_run_report"
    /\ cur' = r
    /\ ret' = load_run_status(runs, r)
    /\ queue' = <<>>
    /\ idx' = 0
    /\ startLen' = Len(runs[r].log)
    /\ replayed' = EmptySnapshot
    /\ UNCHANGED <<runs, INTERRUPTED, pc, invocations, created, config, execution, engine, INIT>>

\* a run root left by earlier processes, with run directories that hold no
\* events file or an empty one
StatusInit ==
    /\ runs \in {InRoot(c) : c \in [1..RootRuns -> RootDirs \cup {EmptyLogDir}]}
    /\ INTERRUPTED = FALSE
    /\ pc = "idle"
    /\ op = "none"
    /\ cur = 0
    /\ queue = <<>>
    /\ idx = 0
    /\ startLen = 0
    /\ ret = NoResult
    /\ invocations = MaxInvocations - 1
    /\ created = 0
    /\ config = DefaultConfig
    /\ execution = NoExecution
    /\ replayed = EmptySnapshot
    /\ engine = NoEngine
    /\ INIT = NoHandler

\* the client calls the four functions that take a run id
StatusNext ==
    \/ \E r \in 1..Len(runs) : LoadRunStatusOf(r)
    \/ \E r \in 1..Len(runs) : RenderRunReport(r)
    \/ \E r \in 1..Len(runs) : ResumeCalled(r) /\ ResumeBody(r)
    \/ \E r \in 1..Len(runs) : RerunCalled(r) /\ RerunBody(r)
    \/ Poll
    \/ StartMutant
    \/ ExecuteMutant
    \/ FinishMutant
    \/ ArtifactsFail
    \/ AfterLoop

StatusSpec == StatusInit /\ [][StatusNext]_vars

\* ---------------------------------------------------------------- engine.rs
\* the phrases classify_outcome looks for; a text is represented by the set
\* of phrases its ASCII-lowercased form contains
Keywords ==
    {"found 0 mutants to test", "no mutants found under the active filters",
     "timeout", "unviable", "survived", "missed", "killed", "caught"}

Texts == SUBSET Keywords

\* ExitStatus: 0 is success()
ExitStatuses == {0, 1}

\* MutationOutcome as classify_outcome builds it; message = <<text>> stands
\* for Error { message: text.trim().to_string() }
Outcome(o) == [outcome |-> o, message |-> <<>>]
ErrorOutcome(text) == [outcome |-> "Error", message |-> <<text>>]

\* variant: the killed keywords are looked for before the survived ones
classify_outcome_KilledFirst(status, text) ==
    IF \/ "found 0 mutants to test" \in text
       \/ "no mutants found under the active filters" \in text
    THEN ErrorOutcome(text)
    ELSE IF "timeout" \in text THEN Outcome("Timeout")
    ELSE IF "unviable" \in text THEN Outcome("Unviable")
    ELSE IF "killed" \in text \/ "caught" \in text THEN Outcome("Killed")
    ELSE IF "survived" \in text \/ "missed" \in text THEN Outcome("Survived")
    ELSE IF status = 0 THEN Outcome("Killed")
    ELSE ErrorOutcome(text)

classify_outcome(status, text) ==
    IF \/ "found 0 mutants to test" \in text
       \/ "no mutants found under the active filters" \in text
    THEN ErrorOutcome(text)
    ELSE IF "timeout" \in text THEN Outcome("Timeout")
    ELSE IF "unviable" \in text THEN Outcome("Unviable")
    ELSE IF "survived" \in text \/ "missed" \in text THEN Outcome("Survived")
    ELSE IF "killed" \in text \/ "caught" \in text THEN Outcome("Killed")
    ELSE IF status = 0 THEN Outcome("Killed")
    ELSE ErrorOutcome(text)

\* what `cargo mutants --help` does: its output holds "--mutant", or not, or
\* cargo (or its mutants subcommand) is missing, or the spawn fails otherwise
HelpResults == {"flag", "noflag", "missing", "ioerr"}

\* what the mutation command does: it runs to an exit status and a text, with
\* or without the missing-subcommand signature on stderr, or its spawn fails
RunResults == {"output", "missing", "ioerr"}

\* Result<MutantExecutionResult, MutationEngineError>
NoEngineResult == [kind |-> "none", error |-> "none", result |-> Outcome("none")]
EngineOk(result) == [kind |-> "ok", error |-> "none", result |-> result]
EngineErr(e) == [kind |-> "err", error |-> e, result |-> Outcome("none")]

\* the commands the adapter spawns
HelpCommand == [args |-> "--help", selector |-> "none", timeout |-> "None"]
MutantCommand(selector, timeout) ==
    [args |-> "--in-place --no-times", selector |-> selector, timeout |-> timeout]

\* execute_mutant is called; the environment's behaviour is fixed in advance
EngineInit ==
    /\ runs = <<>>
    /\ INTERRUPTED = FALSE
    /\ pc = "idle"
    /\ op = "none"
    /\ cur = 0
    /\ queue = <<>>
    /\ idx = 0
    /\ startLen = 0
    /\ ret = NoResult
    /\ invocations = 0
    /\ created = 0
    /\ config \in Configs
    /\ execution = NoExecution
    /\ replayed = EmptySnapshot
    /\ engine \in [pc : {"call"}, help : HelpResults, run : RunResults,
                    status : ExitStatuses, text : Texts, supports : {FALSE},
                    commands : {<<>>}, ret : {NoEngineResult}]
    /\ INIT = NoHandler

\* execute_mutant: self.has_mutant_selector_flag()?
HasMutantSelectorFlag ==
    /\ engine.pc = "call"
    /\ engine' =
          [engine EXCEPT
              !.commands = Append(@, HelpCommand),
              !.supports = engine.help = "flag",
              !.pc = IF engine.help \in {"missing", "ioerr"} THEN "returned" ELSE "probed",
              !.ret = CASE engine.help = "missing" -> EngineErr("MissingCargoMutants")
                        [] engine.help = "ioerr" -> EngineErr("Io")
                        [] OTHER -> NoEngineResult]
    /\ UNCHANGED <<runs, INTERRUPTED, pc, op, cur, queue, idx, startLen, ret, invocations,
                   created, config, execution, replayed, INIT>>

\* variant: without the selector flag the call fails with Unsupported
SpawnMutant_Unsupported ==
    /\ engine.pc = "probed"
    /\ engine' =
          IF ~engine.supports
          THEN [engine EXCEPT !.pc = "returned", !.ret = EngineErr("Unsupported")]
          ELSE [engine EXCEPT
                  !.commands = Append(@, MutantCommand("--mutant", config.timeout_secs)),
                  !.pc = "returned",
                  !.ret = CASE engine.run = "ioerr" -> EngineErr("Io")
                            [] engine.run = "missing" /\ engine.status # 0 ->
                                  EngineErr("MissingCargoMutants")
                            [] OTHER ->
                                  EngineOk(classify_outcome(engine.status, engine.text))]
    /\ UNCHANGED <<runs, INTERRUPTED, pc, op, cur, queue, idx, startLen, ret, invocations,
                   created, config, execution, replayed, INIT>>

\* execute_mutant after the probe: the command is built with --mutant or,
\* without the flag, with --re and the escaped label, then spawned, and its
\* output classified
SpawnMutant ==
    /\ engine.pc = "probed"
    /\ engine' =
          [engine EXCEPT
              !.commands = Append(@, MutantCommand(IF engine.supports THEN "--mutant" ELSE "--re",
                                                   config.timeout_secs)),
              !.pc = "returned",
              !.ret = CASE engine.run = "ioerr" -> EngineErr("Io")
                        [] engine.run = "missing" /\ engine.status # 0 ->
                              EngineErr("MissingCargoMutants")
                        [] OTHER -> EngineOk(classify_outcome(engine.status, engine.text))]
    /\ UNCHANGED <<runs, INTERRUPTED, pc, op, cur, queue, idx, startLen, ret, invocations,
                   created, config, execution, replayed, INIT>>

EngineNext ==
    \/ HasMutantSelectorFlag
    \/ SpawnMutant

EngineSpec == EngineInit /\ [][EngineNext]_vars

\* a process starts on a run root that earlier processes left behind and
\* makes one invocation
RootInit ==
    /\ runs \in {InRoot(c) : c \in [1..RootRuns -> RootDirs]}
    /\ INTERRUPTED = FALSE
    /\ pc = "idle"
    /\ op = "none"
    /\ cur = 0
    /\ queue = <<>>
    /\ idx = 0
    /\ startLen = 0
    /\ ret = NoResult
    /\ invocations = MaxInvocations - 1
    /\ created = 0
    /\ config \in Configs
    /\ execution = NoExecution
    /\ replayed = EmptySnapshot
    /\ engine = NoEngine
    /\ INIT = NoHandler

\* the invocations are calls of run_new, and the engine reports at most
\* RootMutants mutants to a fresh run
RootNext ==
    \/ Interrupt
    \/ RunNewEnter
    \/ RunNewScan
    \/ DiscoverUpTo(RootMutants)
    \/ RetainAndStart
    \/ DiscoverFails
    \/ AppendDiscovered
    \/ \E r \in 1..Len(runs) : ResumeDelegated(r) /\ ResumeBody(r)
    \/ \E r \in 1..Len(runs) : RerunDelegated(r) /\ RerunBody(r)
    \/ Poll
    \/ StartMutant
    \/ ExecuteMutant
    \/ FinishMutant
    \/ ArtifactsFail
    \/ AfterLoop
    \/ Crash

RootSpec == RootInit /\ [][RootNext]_vars

\* ---------------------------------------------------------------- orphans
\* logs left by a run_new that was killed before its RunCompleted append,
\* after the last MutantFinished, or after RunStarted and before the first
\* MutantDiscovered
OrphanedLog(cfg) ==
    <<RunStarted(1, cfg), MutantDiscovered(1),
      MutantStarted(1), MutantFinished(1, "Killed")>>

UndiscoveredLog(cfg) == <<RunStarted(2, cfg)>>

OrphanDirs ==
    {[file |-> TRUE, log |-> l, torn |-> FALSE] :
        l \in UNION {{OrphanedLog(cfg), UndiscoveredLog(cfg), CrashedLog(cfg),
                      SurvivorLog(cfg)} : cfg \in Configs}}

\* a process starts on a run root holding orphaned runs and calls run_new
OrphanInit ==
    /\ runs \in {InRoot(c) : c \in [1..RootRuns -> OrphanDirs]}
    /\ INTERRUPTED = FALSE
    /\ pc = "idle"
    /\ op = "none"
    /\ cur = 0
    /\ queue = <<>>
    /\ idx = 0
    /\ startLen = 0
    /\ ret = NoResult
    /\ invocations = MaxInvocations - 1
    /\ created = 0
    /\ config \in Configs
    /\ execution = NoExecution
    /\ replayed = EmptySnapshot
    /\ engine = NoEngine
    /\ INIT = NoHandler

OrphanSpec == OrphanInit /\ [][RootNext]_vars

\* ---------------------------------------------------------------- stale flag
\* an earlier operation of the process left INTERRUPTED set; the process
\* makes one invocation, on a run root that earlier invocations left behind
StaleInit ==
    /\ runs \in {InRoot(c) : c \in [1..RootRuns -> RootDirs]}
    /\ INTERRUPTED = TRUE
    /\ pc = "idle"
    /\ op = "none"
    /\ cur = 0
    /\ queue = <<>>
    /\ idx = 0
    /\ startLen = 0
    /\ ret = NoResult
    /\ invocations = MaxInvocations - 1
    /\ created = 0
    /\ config = DefaultConfig
    /\ execution = NoExecution
    /\ replayed = EmptySnapshot
    /\ engine = NoEngine
    /\ INIT = NoHandler

\* no signal arrives and the process is not killed
StaleNext ==
    \/ RunNewEnter
    \/ RunNewScan
    \/ DiscoverUpTo(RootMutants)
    \/ RetainAndStart
    \/ DiscoverFails
    \/ AppendDiscovered
    \/ \E r \in 1..Len(runs) : ResumeEnter(r)
    \/ \E r \in 1..Len(runs) : RerunEnter(r)
    \/ Poll
    \/ StartMutant
    \/ ExecuteMutant
    \/ FinishMutant
    \/ ArtifactsFail
    \/ AfterLoop

StaleSpec == StaleInit /\ [][StaleNext]_vars

\* ---------------------------------------------------------------- handler
\* a process, in which ctrlc::set_handler succeeds or fails, makes
\* invocations on a run root that earlier processes left behind
SignalInit ==
    /\ runs \in {InRoot(c) : c \in [1..RootRuns -> RootDirs]}
    /\ INTERRUPTED = FALSE
    /\ pc = "idle"
    /\ op = "none"
    /\ cur = 0
    /\ queue = <<>>
    /\ idx = 0
    /\ startLen = 0
    /\ ret = NoResult
    /\ invocations = MaxInvocations - 1
    /\ created = 0
    /\ config = DefaultConfig
    /\ execution = NoExecution
    /\ replayed = EmptySnapshot
    /\ engine = NoEngine
    /\ INIT \in {[NoHandler EXCEPT !.occupied = b] : b \in BOOLEAN}

SignalNext ==
    \/ \E f \in EntryPoints : SignalError(f)
    \/ RunNewEnter
    \/ RunNewScan
    \/ DiscoverUpTo(RootMutants)
    \/ RetainAndStart
    \/ DiscoverFails
    \/ AppendDiscovered
    \/ \E r \in 1..Len(runs) : ResumeEnter(r)
    \/ \E r \in 1..Len(runs) : RerunEnter(r)
    \/ Poll
    \/ StartMutant
    \/ ExecuteMutant
    \/ FinishMutant
    \/ ArtifactsFail
    \/ AfterLoop

SignalSpec == SignalInit /\ [][SignalNext]_vars

\* ---------------------------------------------------------------- run ids
\* run directories of a run root that was not filled by generate_run_id alone
KeyRuns == 3

\* names of directories found in a run root: run ids with keys that differ
\* in one component, one whose timestamp has more digits, one with a leading
\* zero, one followed by a further part, and names without a key
KeyNames ==
    {<<RunPrefix, <<"9">>, <<"1">>, <<"1">>>>,
     <<RunPrefix, <<"1", "0">>, <<"1">>, <<"1">>>>,
     <<RunPrefix, <<"9">>, <<"1">>, <<"2">>>>,
     <<RunPrefix, <<"9">>, <<"2">>, <<"1">>>>,
     <<RunPrefix, <<"0", "9">>, <<"1">>, <<"1">>>>,
     <<RunPrefix, <<"8">>, <<"1">>, <<"1">>, <<"x">>>>,
     <<RunPrefix, <<"9">>, <<"1">>>>,
     <<RunPrefix, <<"x">>, <<"1">>, <<"1">>>>,
     <<<<"t", "m", "p">>, <<"9">>, <<"1">>, <<"1">>>>}

\* their logs: a run to resume and a completed run with a survivor
KeyLogs == {CrashedLog(DefaultConfig), SurvivorLog(DefaultConfig)}

\* a process starts on such a run root and calls run_new once
KeyInit ==
    /\ runs \in {[i \in 1..KeyRuns |->
                    [file |-> TRUE, log |-> logs[i], torn |-> FALSE, name |-> names[i]]] :
                 logs \in [1..KeyRuns -> KeyLogs],
                 names \in {n \in [1..KeyRuns -> KeyNames] :
                               \A i, j \in 1..KeyRuns : i # j => n[i] # n[j]}}
    /\ INTERRUPTED = FALSE
    /\ pc = "idle"
    /\ op = "none"
    /\ cur = 0
    /\ queue = <<>>
    /\ idx = 0
    /\ startLen = 0
    /\ ret = NoResult
    /\ invocations = MaxInvocations - 1
    /\ created = 0
    /\ config = DefaultConfig
    /\ execution = NoExecution
    /\ replayed = EmptySnapshot
    /\ engine = NoEngine
    /\ INIT = NoHandler

\* run_new to its return, without interrupts and failures
KeyNext ==
    \/ RunNewEnter
    \/ RunNewScan
    \/ DiscoverUpTo(RootMutants)
    \/ RetainAndStart
    \/ AppendDiscovered
    \/ \E r \in 1..Len(runs) : ResumeDelegated(r) /\ ResumeBody(r)
    \/ \E r \in 1..Len(runs) : RerunDelegated(r) /\ RerunBody(r)
    \/ Poll
    \/ StartMutant
    \/ ExecuteMutant
    \/ FinishMutant
    \/ AfterLoop

KeySpec == KeyInit /\ [][KeyNext]_vars

\* ---------------------------------------------------------------- persisted config
\* logs of a run to resume and of a completed run with a survivor, started
\* with each config, or by a RunStarted that carries no config
ConfigDirs ==
    {[file |-> TRUE, log |-> l, torn |-> FALSE] :
        l \in UNION {{CrashedLog(cfg), SurvivorLog(cfg)} : cfg \in Configs \cup {NoConfig}}}

\* a process starts on a run root of such runs and calls run_new with any config
ConfigInit ==
    /\ runs \in {InRoot(c) : c \in [1..RootRuns -> ConfigDirs]}
    /\ INTERRUPTED = FALSE
    /\ pc = "idle"
    /\ op = "none"
    /\ cur = 0
    /\ queue = <<>>
    /\ idx = 0
    /\ startLen = 0
    /\ ret = NoResult
    /\ invocations = MaxInvocations - 1
    /\ created = 0
    /\ config \in Configs
    /\ execution = NoExecution
    /\ replayed = EmptySnapshot
    /\ engine = NoEngine
    /\ INIT = NoHandler

ConfigSpec == ConfigInit /\ [][RootNext]_vars

\* ---------------------------------------------------------------- fresh runs
\* run_new is called once on an empty run root, without or with a filter
FreshInit ==
    /\ runs = <<>>
    /\ INTERRUPTED = FALSE
    /\ pc = "idle"
    /\ op = "none"
    /\ cur = 0
    /\ queue = <<>>
    /\ idx = 0
    /\ startLen = 0
    /\ ret = NoResult
    /\ invocations = MaxInvocations - 1
    /\ created = 0
    /\ config \in [filter : Filters \cup {"bed"}, timeout_secs : {"None"}]
    /\ execution = NoExecution
    /\ replayed = EmptySnapshot
    /\ engine = NoEngine
    /\ INIT = NoHandler

FreshNext ==
    \/ Interrupt
    \/ RunNewEnter
    \/ RunNewScan
    \/ Discover
    \/ RetainAndStart
    \/ DiscoverFails
    \/ AppendDiscovered
    \/ Poll
    \/ StartMutant
    \/ ExecuteMutant
    \/ FinishMutant
    \/ ArtifactsFail
    \/ AfterLoop
    \/ Crash

FreshSpec == FreshInit /\ [][FreshNext]_vars

TypeOK ==
    /\ pc \in {"idle", "scan", "resume_enter", "rerun_enter", "discover", "filter",
               "discovered", "poll", "start", "exec", "artifacts", "after"}
    /\ INTERRUPTED \in BOOLEAN
    /\ created <= MaxRuns
    /\ invocations <= MaxInvocations
    /\ config \in Configs

\* ---------------------------------------------------------------- observation
\* the log of the run the current (or last returned) invocation works on
CurLog == IF cur \in 1..Len(runs) THEN runs[cur].log ELSE <<>>

\* run_new has chosen the run to delegate to, the callee has not begun
Delegating == pc \in {"resume_enter", "rerun_enter"}

\* what the executing function replayed on entry, and what it appended since
EntryLog == IF Delegating THEN CurLog ELSE SubSeq(CurLog, 1, startLen)
EntrySnapshot == replay_events(EntryLog)
Appended == IF Delegating THEN <<>> ELSE SubSeq(CurLog, startLen + 1, Len(CurLog))

HasAppended(t) == \E i \in 1..Len(Appended) : Appended[i].type = t
CountAppended(T) == Cardinality({i \in 1..Len(Appended) : Appended[i].type \in T})

\* ids of the MutantStarted events appended by the invocation, in order
RECURSIVE StartedIds(_)
StartedIds(log) ==
    IF log = <<>> THEN <<>>
    ELSE IF Head(log).type = "MutantStarted"
         THEN <<Head(log).mutant_id>> \o StartedIds(Tail(log))
         ELSE StartedIds(Tail(log))

Executed == StartedIds(Appended)

FinishedCount(log, m) ==
    Cardinality({i \in 1..Len(log) :
        log[i].type = "MutantFinished" /\ log[i].mutant_id = m})

\* ids in the order of their MutantDiscovered events
RECURSIVE DiscoveredIds(_)
DiscoveredIds(log) ==
    IF log = <<>> THEN <<>>
    ELSE IF Head(log).type = "MutantDiscovered"
         THEN <<Head(log).mutant_id>> \o DiscoveredIds(Tail(log))
         ELSE DiscoveredIds(Tail(log))

PositionIn(q, m) == CHOOSE i \in 1..Len(q) : q[i] = m

\* the invocation returned Ok
Returned == pc = "idle" /\ ret.kind = "ok"

\* ... after entering its execution loop (the early returns leave idx = 0)
ReturnedFromLoop == Returned /\ idx >= 1

\* the loop was left by `break`: the poll before queue[idx] saw the flag set
BrokeBefore(n) == idx \in 1..Len(queue) /\ queue[idx] = n

\* ---------------------------------------------------------------- claims

\* C1 (as stated): whenever the loop of run_new, resume_run or rerun_survivors
\* polls the flag before mutant n and finds it set, the invocation appends
\* RunInterrupted and no MutantStarted for n, and the snapshot it returns has
\* completed = false and a non-empty pending_mutants().
C1_Original ==
    \A n \in Ids :
        (ReturnedFromLoop /\ BrokeBefore(n)) =>
            /\ HasAppended("RunInterrupted")
            /\ n \notin Range(Executed)
            /\ ~ret.snapshot.completed
            /\ pending_mutants(ret.snapshot) # <<>>

\* C1 (amended): whenever the loop polls the flag before mutant n and finds it
\* set, the invocation appends RunInterrupted and no MutantStarted for n; the
\* returned snapshot is completed exactly if the log already held RunCompleted
\* when the invocation replayed it, and pending_mutants() is non-empty unless
\* n is a Survived mutant that was queued for a re-test.
C1_InterruptBeforeMutant ==
    \A n \in Ids :
        (ReturnedFromLoop /\ BrokeBefore(n)) =>
            /\ HasAppended("RunInterrupted")
            /\ n \notin Range(Executed)
            /\ ret.snapshot.completed = EntrySnapshot.completed
            /\ (EntrySnapshot.mutants[n] # "Survived"
                    => pending_mutants(ret.snapshot) # <<>>)

\* an invocation that executed a mutant and was stopped before the next one
C1_Witness ==
    /\ ReturnedFromLoop
    /\ idx \in 2..Len(queue)
    /\ ret.snapshot.interrupted

\* C2 (as stated): a resume_run that returns without having been interrupted
\* has executed again, and appended a MutantFinished for, every mutant that
\* was Running (started, never finished) in the log it replayed, whether or
\* not that log contains RunCompleted.
C2_Original ==
    (Returned /\ op = "resume_run" /\ ~HasAppended("RunInterrupted")) =>
        \A m \in Ids :
            EntrySnapshot.mutants[m] = "Running" =>
                /\ m \in Range(Executed)
                /\ FinishedCount(Appended, m) >= 1

\* C3 (as stated): a run_new or resume_run that returns Ok after entering its
\* execution loop has appended exactly one of RunInterrupted and RunCompleted.
C3_Original ==
    (ReturnedFromLoop /\ op \in {"run_new", "resume_run"}) =>
        CountAppended({"RunInterrupted", "RunCompleted"}) = 1

\* mutants that resume_run has to execute, by their status in the replayed log
ToExecute == {m \in Ids : EntrySnapshot.mutants[m] \in {"Survived", "Pending", "Running"}}

InSurvivorGroup(m) == EntrySnapshot.mutants[m] = "Survived"

\* a resume_run on a log without RunCompleted that has entered its loop
ResumingIncomplete == op = "resume_run" /\ idx >= 1 /\ ~EntrySnapshot.completed

\* C4: resume_run on a run that is not completed executes only mutants whose
\* replayed status is Survived, Pending or Running, none of them twice and
\* every survivor before every other mutant; when it has worked through its
\* queue it has executed all of them, each with exactly one MutantFinished.
C4_ResumeExecutesSurvivorsThenPending ==
    ResumingIncomplete =>
        /\ Range(Executed) \subseteq ToExecute
        /\ \A i, j \in 1..Len(Executed) :
              i < j =>
                  /\ Executed[i] # Executed[j]
                  /\ ~(~InSurvivorGroup(Executed[i]) /\ InSurvivorGroup(Executed[j]))
        /\ (ReturnedFromLoop /\ ~HasAppended("RunInterrupted")) =>
              /\ Range(Executed) = ToExecute
              /\ \A m \in ToExecute : FinishedCount(Appended, m) = 1

\* {a: survived, b: killed, c: pending} resumed as [a, c]
C4_Witness ==
    /\ ResumingIncomplete
    /\ ReturnedFromLoop
    /\ \E a, b, c \in Ids :
          /\ EntrySnapshot.mutants[a] = "Survived"
          /\ EntrySnapshot.mutants[b] = "Killed"
          /\ EntrySnapshot.mutants[c] = "Pending"
          /\ Executed = <<a, c>>

SameGroup(m, n) == InSurvivorGroup(m) = InSurvivorGroup(n)

\* C5 (as stated): within the survivor group and within the pending group,
\* resume_run executes mutants in the order of their MutantDiscovered events.
C5_Original ==
    (op = "resume_run" /\ idx >= 1) =>
        \A i, j \in 1..Len(Executed) :
            (i < j /\ SameGroup(Executed[i], Executed[j])) =>
                PositionIn(DiscoveredIds(EntryLog), Executed[i])
                    < PositionIn(DiscoveredIds(EntryLog), Executed[j])

\* C5 (amended): within the survivor group and within the pending group,
\* resume_run executes mutants in ascending order of their ids (the key order
\* of the snapshot's map), whatever the order of their MutantDiscovered events.
C5_GroupsInAscendingIdOrder ==
    (op = "resume_run" /\ idx >= 1) =>
        \A i, j \in 1..Len(Executed) :
            (i < j /\ SameGroup(Executed[i], Executed[j])) =>
                Executed[i] < Executed[j]

\* two mutants of one group executed against their discovery order
C5_Witness ==
    /\ op = "resume_run"
    /\ ReturnedFromLoop
    /\ \E i, j \in 1..Len(Executed) :
          /\ i < j
          /\ SameGroup(Executed[i], Executed[j])
          /\ PositionIn(DiscoveredIds(EntryLog), Executed[i])
                > PositionIn(DiscoveredIds(EntryLog), Executed[j])

\* the loop ran through the whole queue and the flag was never set
WorkedThroughQueue == ReturnedFromLoop /\ idx > Len(queue) /\ ~INTERRUPTED

\* C6 (as stated): a run_new, resume_run or rerun_survivors invocation that
\* worked through its whole queue without the flag being set has appended
\* RunCompleted and returns a snapshot with completed = true.
C6_Original ==
    WorkedThroughQueue =>
        /\ HasAppended("RunCompleted")
        /\ ret.snapshot.completed

\* C6 (amended): a run_new or resume_run invocation that worked through its
\* whole queue without the flag being set has appended RunCompleted and
\* returns completed = true; rerun_survivors appends no RunCompleted, and its
\* snapshot is completed exactly if the log it replayed already was.
C6_CompletionAfterLoop ==
    WorkedThroughQueue =>
        /\ op \in {"run_new", "resume_run"} =>
              /\ HasAppended("RunCompleted")
              /\ ret.snapshot.completed
        /\ op = "rerun_survivors" =>
              /\ ~HasAppended("RunCompleted")
              /\ ret.snapshot.completed = EntrySnapshot.completed

\* a resume_run that completed a run, and a rerun_survivors that did not
C6_Witness ==
    /\ WorkedThroughQueue
    /\ Len(queue) >= 1
    /\ \/ op = "resume_run" /\ ~EntrySnapshot.completed
       \/ op = "rerun_survivors" /\ ~ret.snapshot.completed

IsFinished(e, m) == e.type = "MutantFinished" /\ e.mutant_id = m

\* C7 (as stated): in every log each mutant id has at most one MutantFinished.
C7_Original ==
    \A r \in 1..Len(runs) : \A m \in Ids : FinishedCount(runs[r].log, m) <= 1

\* C7 (amended): one invocation appends at most one MutantFinished per mutant
\* id, and a mutant gets a further MutantFinished from a later invocation
\* only if its previous one recorded Survived: all MutantFinished events of a
\* mutant but the last have outcome Survived.
C7_OnlySurvivedIsSuperseded ==
    /\ \A m \in Ids : FinishedCount(Appended, m) <= 1
    /\ \A r \in 1..Len(runs) : \A m \in Ids :
          \A i, j \in 1..Len(runs[r].log) :
              (i < j /\ IsFinished(runs[r].log[i], m) /\ IsFinished(runs[r].log[j], m))
                  => runs[r].log[i].outcome = "Survived"

\* a survivor that was executed again
C7_Witness ==
    \E r \in 1..Len(runs) : \E m \in Ids : FinishedCount(runs[r].log, m) >= 2

\* C8 (as stated): RunCompleted, if present, is the last event of the log.
C8_Original ==
    \A r \in 1..Len(runs) : \A i \in 1..Len(runs[r].log) :
        runs[r].log[i].type = "RunCompleted" => i = Len(runs[r].log)

\* C8 (amended): RunCompleted is the last event of the log when the
\* invocation that appended it returns; an event follows a RunCompleted only
\* when the run had a Survived mutant at that point, and that event is the
\* RunResumed of a later invocation re-testing the survivors.
C8_CompletedIsLastUnlessSurvivorsRetested ==
    /\ (ReturnedFromLoop /\ HasAppended("RunCompleted")) =>
          CurLog[Len(CurLog)].type = "RunCompleted"
    /\ \A r \in 1..Len(runs) : \A i \in 1..Len(runs[r].log) :
          (runs[r].log[i].type = "RunCompleted" /\ i < Len(runs[r].log)) =>
              /\ runs[r].log[i + 1].type = "RunResumed"
              /\ survivor_mutants(replay_events(SubSeq(runs[r].log, 1, i))) # <<>>

\* a completed log that a later invocation has appended to
C8_Witness ==
    \E r \in 1..Len(runs) : \E i \in 1..Len(runs[r].log) :
        runs[r].log[i].type = "RunCompleted" /\ i < Len(runs[r].log)

\* C9 (as stated): completed and interrupted are both true only if some
\* RunCompleted was appended after a RunInterrupted, and no RunInterrupted
\* follows the last RunCompleted.
C9_Original ==
    \A r \in 1..Len(runs) :
        LET log == runs[r].log
            s == replay_events(log)
        IN /\ (s.completed /\ s.interrupted) =>
                 \E i, j \in 1..Len(log) :
                     /\ i < j
                     /\ log[i].type = "RunInterrupted"
                     /\ log[j].type = "RunCompleted"
           /\ \A i, j \in 1..Len(log) :
                 (i < j /\ log[i].type = "RunCompleted" /\ log[j].type = "RunInterrupted")
                     => \E k \in (j + 1)..Len(log) : log[k].type = "RunCompleted"

\* C9 (amended): no single invocation appends both RunInterrupted and
\* RunCompleted; completed and interrupted are both true when a later
\* invocation appended RunCompleted after a RunInterrupted, or when a later
\* resume_run or rerun_survivors re-testing the survivors of a completed run
\* was interrupted, in which case its RunResumed lies between the
\* RunCompleted and the RunInterrupted.
C9_CompletedAndInterrupted ==
    /\ ~(HasAppended("RunInterrupted") /\ HasAppended("RunCompleted"))
    /\ \A r \in 1..Len(runs) :
          LET log == runs[r].log
          IN \A i, j \in 1..Len(log) :
                (i < j /\ log[i].type = "RunCompleted" /\ log[j].type = "RunInterrupted")
                    => \E k \in (i + 1)..(j - 1) : log[k].type = "RunResumed"

\* a completed run whose survivor re-test was interrupted
C9_Witness ==
    \E r \in 1..Len(runs) :
        LET log == runs[r].log
            s == replay_events(log)
        IN /\ s.completed
           /\ s.interrupted
           /\ log[Len(log)].type = "RunInterrupted"

\* resume_run was called on a completed log without survivors
ResumedCompletedWithoutSurvivors ==
    /\ op = "resume_run"
    /\ cur \in 1..Len(runs)
    /\ runs[cur].file
    /\ EntrySnapshot.completed
    /\ survivor_mutants(EntrySnapshot) = <<>>

\* C10: resume_run on a run whose snapshot is completed and has no Survived
\* mutant returns at once with the replayed snapshot, schedules and executes
\* no mutant and appends no event, each time it is called.
C10_ResumeOfCompletedRunIsNoOp ==
    ResumedCompletedWithoutSurvivors =>
        /\ pc = "idle"
        /\ ret = OkResult(cur, replay_events(CurLog))
        /\ Appended = <<>>
        /\ queue = <<>>

\* resume_run has returned from a completed run with at least one mutant
C10_Witness ==
    /\ ResumedCompletedWithoutSurvivors
    /\ Returned
    /\ \E m \in Ids : ret.snapshot.mutants[m] = "Killed"

\* ---------------------------------------------------------------- run roots
\* RootSpec: the log run r held before the invocation (the logs of RootDirs
\* hold no RunResumed, and resume_run and rerun_survivors append it first)
RootLog(r) ==
    LET log == runs[r].log
        resumed == {i \in 1..Len(log) : log[i].type = "RunResumed"}
    IN IF resumed = {} THEN log
       ELSE SubSeq(log, 1, (CHOOSE i \in resumed : \A j \in resumed : i <= j) - 1)

RootSnapshot(r) == replay_events(RootLog(r))

\* the persisted filter and timeout of run r equal the requested ones
SameConfig(r) ==
    /\ RootSnapshot(r).config.filter = config.filter
    /\ RootSnapshot(r).config.timeout_secs = config.timeout_secs

\* run r was, before the invocation, not completed, with pending mutants and
\* the requested config
IncompleteInRoot(r) ==
    /\ r \in 1..RootRuns
    /\ runs[r].file
    /\ ~RootSnapshot(r).completed
    /\ pending_mutants(RootSnapshot(r)) # <<>>
    /\ SameConfig(r)

\* run r was, before the invocation, completed, with a survivor and the
\* requested config
SurvivorsInRoot(r) ==
    /\ r \in 1..RootRuns
    /\ runs[r].file
    /\ RootSnapshot(r).completed
    /\ survivor_mutants(RootSnapshot(r)) # <<>>
    /\ SameConfig(r)

MostRecent(S) == CHOOSE r \in S : \A q \in S : q <= r

\* no run directory was created and no log but that of run r was appended to
OnlyTouched(r) ==
    /\ Len(runs) = RootRuns
    /\ \A q \in 1..RootRuns : q # r => runs[q].log = RootLog(q)

\* C11: if the run root holds a run that is not completed, has pending
\* mutants and the requested filter and timeout, run_new works on the most
\* recent such run through resume_run: it creates no run directory, never
\* reaches discover, appends to no other log and returns that run's id, also
\* when a more recent completed run with survivors exists.
C11_RunNewResumesLatestIncomplete ==
    LET incomplete == {r \in 1..RootRuns : IncompleteInRoot(r)}
    IN incomplete # {} =>
          /\ OnlyTouched(MostRecent(incomplete))
          /\ pc \notin {"discover", "filter", "discovered", "rerun_enter"}
          /\ op # "rerun_survivors"
          /\ cur # 0 => cur = MostRecent(incomplete)
          /\ Returned => ret.run = MostRecent(incomplete)

\* run_new resumed and completed the older of two runs, the newer one being
\* a compatible completed run with a survivor
C11_Witness ==
    /\ IncompleteInRoot(1)
    /\ SurvivorsInRoot(2)
    /\ Returned
    /\ op = "resume_run"
    /\ ret.run = 1
    /\ ret.snapshot.completed
    /\ Executed # <<>>

\* C12: if the run root holds no compatible incomplete run but a completed
\* run with a Survived mutant and the requested config, run_new works on the
\* most recent such run through rerun_survivors: it creates no run directory,
\* never reaches discover, appends to no other log, returns that run's id and
\* executes only mutants that were Survived, all of them once it has worked
\* through its queue.
C12_RunNewRetestsLatestSurvivors ==
    LET incomplete == {r \in 1..RootRuns : IncompleteInRoot(r)}
        completed == {r \in 1..RootRuns : SurvivorsInRoot(r)}
        survived == {m \in Ids : RootSnapshot(MostRecent(completed)).mutants[m] = "Survived"}
    IN (incomplete = {} /\ completed # {}) =>
          /\ OnlyTouched(MostRecent(completed))
          /\ pc \notin {"discover", "filter", "discovered", "resume_enter"}
          /\ op # "resume_run"
          /\ cur # 0 => cur = MostRecent(completed)
          /\ Returned => ret.run = MostRecent(completed)
          /\ Range(Executed) \subseteq survived
          /\ (ReturnedFromLoop /\ idx > Len(queue)) =>
                /\ Range(Executed) = survived
                /\ \A m \in survived : FinishedCount(Appended, m) = 1

\* after [1 -> Killed, 2 -> Survived] in the newer of two completed runs
\* with survivors, run_new executed only 2, which is now Killed
C12_Witness ==
    /\ SurvivorsInRoot(1)
    /\ SurvivorsInRoot(2)
    /\ Returned
    /\ ret.run = 2
    /\ Executed = <<2>>
    /\ \A m \in {1, 2} : ret.snapshot.mutants[m] = "Killed"

\* a rerun_survivors on a run whose log exists, past its entry
Rerunning ==
    /\ op = "rerun_survivors"
    /\ ~Delegating
    /\ cur \in 1..Len(runs)
    /\ runs[cur].file

Unfinished(m) == EntrySnapshot.mutants[m] \in {"Pending", "Running"}

\* C13: rerun_survivors executes only mutants whose replayed status is
\* Survived, none twice and all of them once it has worked through its queue;
\* a Pending or Running mutant keeps its status and stays in
\* pending_mutants(); when the run has no survivor the invocation returns the
\* replayed snapshot and appends no event.
C13_RerunExecutesOnlySurvivors ==
    Rerunning =>
        /\ \A i \in 1..Len(Executed) : InSurvivorGroup(Executed[i])
        /\ \A i, j \in 1..Len(Executed) : i < j => Executed[i] # Executed[j]
        /\ (ReturnedFromLoop /\ idx > Len(queue)) =>
              Range(Executed) = {m \in Ids : InSurvivorGroup(m)}
        /\ \A m \in Ids :
              Unfinished(m) =>
                  /\ replay_events(CurLog).mutants[m] = EntrySnapshot.mutants[m]
                  /\ m \in Range(pending_mutants(replay_events(CurLog)))
        /\ {m \in Ids : InSurvivorGroup(m)} = {} =>
              /\ Returned
              /\ ret = OkResult(cur, EntrySnapshot)
              /\ Appended = <<>>

\* a survivor was executed again next to a mutant that is still pending
C13_Witness ==
    /\ Rerunning
    /\ ReturnedFromLoop
    /\ \E a, b \in Ids :
          /\ InSurvivorGroup(a)
          /\ Unfinished(b)
          /\ Executed = <<a>>
          /\ ret.snapshot.mutants[a] = "Killed"
          /\ b \in Range(pending_mutants(ret.snapshot))

\* the thread is inside an invocation before and after the step
StaysInInvocation == pc # "idle" /\ pc' # "idle"

\* C14: an execute_mutant call that returns an error does not end the
\* invocation: the result is given outcome Error, the MutantFinished appended
\* for the mutant carries Error and the loop goes on to the next mutant; a
\* run_new that worked through its queue without the flag being set returns
\* completed = true with every mutant in the status of its MutantFinished,
\* Error for every failed call.
C14_EngineErrorsAreRecorded ==
    /\ [][/\ pc = "exec" => (pc' \in {"exec", "artifacts"} \/ op' = "none")
          /\ (pc = "exec" /\ pc' = "artifacts" /\ execution'.failed)
                => execution'.outcome = "Error"
          /\ (pc = "artifacts" /\ execution.failed /\ StaysInInvocation /\ pc' # pc)
                => /\ runs'[cur].log =
                         Append(runs[cur].log, MutantFinished(queue[idx], "Error"))
                   /\ pc' = "poll"
                   /\ idx' = idx + 1]_vars
    /\ []((WorkedThroughQueue /\ op = "run_new") =>
            /\ ret.kind = "ok"
            /\ ret.snapshot.completed
            /\ \A i \in 1..Len(Appended) :
                  Appended[i].type = "MutantFinished" =>
                      ret.snapshot.mutants[Appended[i].mutant_id] = Appended[i].outcome
            /\ \A m \in Range(queue) : FinishedCount(Appended, m) = 1)

\* run_new completed a run of two mutants whose execute calls both failed
C14_Witness ==
    /\ WorkedThroughQueue
    /\ op = "run_new"
    /\ Len(queue) = 2
    /\ ret.snapshot.completed
    /\ \A m \in Range(queue) : ret.snapshot.mutants[m] = "Error"

\* C15 (as stated): no invocation returns, with Ok or with an error, leaving
\* a mutant it started in status Running: every failure while processing a
\* mutant ends in a MutantFinished for it.
C15_Original ==
    (pc = "idle" /\ ret.kind # "none") =>
        \A m \in Range(Executed) : replay_events(CurLog).mutants[m] # "Running"

\* ---------------------------------------------------------------- one log
\* LogSpec: the lines of the log and its replay
LogLines == runs[1].log

LogSnapshot == replay_events(LogLines)

\* the snapshot load_run_status returned is that of the log as it is now
Loaded == ret.kind = "ok" /\ ret.snapshot = LogSnapshot

\* positions of the events of the log that concern mutant m
Concerning(log, m) ==
    {i \in 1..Len(log) :
        /\ log[i].type \in {"MutantDiscovered", "MutantStarted", "MutantFinished"}
        /\ log[i].mutant_id = m}

\* the last event concerning the discovered mutant m is its MutantStarted
StartedLast(log, m) ==
    LET c == Concerning(log, m)
    IN /\ \E i \in c : log[i].type = "MutantDiscovered"
       /\ log[CHOOSE i \in c : \A j \in c : j <= i].type = "MutantStarted"

\* C16: for every log, a discovered mutant whose last event is MutantStarted
\* replays as Running and is in pending_mutants(); pending_mutants() holds
\* exactly the mutants in status Pending or Running, none of them terminal.
C16_RunningIsPending ==
    /\ \A m \in Ids :
          StartedLast(LogLines, m) =>
              /\ LogSnapshot.mutants[m] = "Running"
              /\ m \in Range(pending_mutants(LogSnapshot))
    /\ Range(pending_mutants(LogSnapshot))
          = {m \in Ids : LogSnapshot.mutants[m] \in {"Pending", "Running"}}
    /\ \A m \in Range(pending_mutants(LogSnapshot)) :
          LogSnapshot.mutants[m] \notin Outcomes

\* a loaded log in which one mutant was started and never finished and the
\* other one was killed
C16_Witness ==
    /\ Loaded
    /\ StartedLast(LogLines, 1)
    /\ ret.snapshot.mutants[2] = "Killed"
    /\ pending_mutants(ret.snapshot) = <<1>>

\* C17 (as stated): a resume_run on a log that replayed as not completed,
\* during which the flag was never set and which returned from its loop,
\* returns a snapshot with completed = true, an empty pending_mutants() and
\* every mutant in a terminal status.
C17_Original ==
    (op = "resume_run" /\ ReturnedFromLoop /\ ~replayed.completed /\ ~INTERRUPTED) =>
        /\ ret.snapshot.completed
        /\ pending_mutants(ret.snapshot) = <<>>
        /\ \A m \in Ids : ret.snapshot.mutants[m] \in Outcomes \cup {"Absent"}

\* C18 (as stated): when append_event returns success for event e, a replay
\* of the log shows the snapshot of before with e applied, also when the log
\* ended in an unterminated line at the time of the append; that line only
\* counts as malformed.
C18_Original ==
    [][\A e \in LogEvents :
          runs' = append_event(runs, 1, e) =>
              replay_events(runs'[1].log) = ApplyEvent(replay_events(runs[1].log), e)]_vars

\* C19 (StaleSpec: the flag is set when the invocation begins and no signal
\* arrives during it): run_new, resume_run and rerun_survivors append no
\* RunInterrupted, and an invocation that returns from its loop has executed
\* its entire queue.
C19_StaleFlagIsReset ==
    /\ pc # "idle" => ~INTERRUPTED
    /\ \A r \in 1..Len(runs) : \A i \in 1..Len(runs[r].log) :
          runs[r].log[i].type = "RunInterrupted" => i <= Len(RootLog(r))
    /\ ReturnedFromLoop => Executed = queue

\* a rerun_survivors entered with the flag set ran its queue to the end
C19_Witness ==
    /\ ReturnedFromLoop
    /\ ~HasAppended("RunInterrupted")
    /\ queue # <<>>
    /\ Executed = queue
    /\ op = "rerun_survivors"
    /\ ret.snapshot.completed

\* the events of every mutant id are ordered Discovered -> Started -> Finished
OrderedPerMutant(log) ==
    \A i \in 1..Len(log) :
        /\ log[i].type = "MutantStarted" =>
              \E j \in 1..(i - 1) :
                  log[j].type = "MutantDiscovered" /\ log[j].mutant_id = log[i].mutant_id
        /\ log[i].type = "MutantFinished" =>
              \E j \in 1..(i - 1) :
                  /\ log[j].type = "MutantStarted"
                  /\ log[j].mutant_id = log[i].mutant_id
                  /\ \A k \in (j + 1)..(i - 1) : ~IsFinished(log[k], log[i].mutant_id)

\* C20 (as stated): in every log the controller produces, across crashes and
\* resumes, a mutant's MutantDiscovered precedes each of its MutantStarted,
\* and each of its MutantFinished is preceded by a MutantStarted of it with no
\* other MutantFinished of it in between.
C20_Original ==
    \A r \in 1..Len(runs) : OrderedPerMutant(runs[r].log)

\* ---------------------------------------------------------------- raw lines
\* every line of the log parses as a MutationEvent
AllValid(log) == \A i \in 1..Len(log) : log[i] \in LogEvents

\* the log is a sequence of valid events followed by one line that is none
InvalidTail(log) ==
    /\ log # <<>>
    /\ AllValid(SubSeq(log, 1, Len(log) - 1))
    /\ log[Len(log)] \notin LogEvents

\* C21 (as stated): when the log is a sequence of valid events followed by
\* one syntactically invalid line, replay_events succeeds, with
\* malformed_lines one more than, and run_id, every mutant's state,
\* interrupted and completed equal to, the replay without that line.
C21_Original ==
    [][(runs' = runs /\ InvalidTail(LogLines)) =>
          LET before == replay_events(SubSeq(LogLines, 1, Len(LogLines) - 1))
          IN /\ ret'.kind = "ok"
             /\ ret'.snapshot.malformed_lines = before.malformed_lines + 1
             /\ ret'.snapshot.run_id = before.run_id
             /\ ret'.snapshot.mutants = before.mutants
             /\ ret'.snapshot.interrupted = before.interrupted
             /\ ret'.snapshot.completed = before.completed]_vars

\* ---------------------------------------------------------------- status
\* one of the four functions taking a run id has returned
ReturnedOn(r) == pc = "idle" /\ op # "none" /\ cur = r

\* C22: load_run_status, render_run_report, resume_run and rerun_survivors
\* on a run whose events file does not exist return the State error, enter
\* no execution loop and leave the run directory without events file; on an
\* existing empty events file they return Ok with a snapshot without mutants.
C22_MissingLogIsAnError ==
    /\ [][\A r \in 1..Len(runs) : ~runs[r].file => runs'[r] = runs[r]]_vars
    /\ [](\A r \in 1..Len(runs) :
            /\ (ReturnedOn(r) /\ ~runs[r].file) =>
                  /\ ret = ErrResult(r, "State")
                  /\ queue = <<>>
                  /\ idx = 0
            /\ (pc # "idle" /\ cur = r) => runs[r].file
            /\ (ReturnedOn(r) /\ runs[r].file /\ EntryLog = <<>>) =>
                  /\ ret.kind = "ok"
                  /\ \A m \in Ids : ret.snapshot.mutants[m] = "Absent")

\* render_run_report failed on a run without events file, next to a run
\* whose events file is empty
C22_Witness ==
    /\ op = "render_run_report"
    /\ ReturnedOn(1)
    /\ ~runs[1].file
    /\ ret.error = "State"
    /\ runs[2].file /\ runs[2].log = <<>>

\* ---------------------------------------------------------------- engine.rs
\* the mutation commands (all but the help probe) the adapter has spawned
MutationCommands ==
    {i \in 1..Len(engine.commands) : engine.commands[i] # HelpCommand}

\* C23 (as stated): when the help text of the tool lacks --mutant,
\* execute_mutant returns the error Unsupported and spawns no mutation command.
C23_Original ==
    (engine.pc # "none" /\ engine.help = "noflag") =>
        /\ MutationCommands = {}
        /\ engine.pc = "returned" => engine.ret = EngineErr("Unsupported")

\* C24: an execute_mutant that returns Ok carries the outcome fixed by the
\* precedence: a zero-mutants phrase gives Error with the text; else timeout
\* gives Timeout; else unviable gives Unviable; else survived or missed gives
\* Survived; else killed or caught gives Killed; else exit status 0 gives
\* Killed and any other status Error with the text.
C24_ClassifyPrecedence ==
    engine.pc = "returned" /\ engine.ret.kind = "ok" =>
        LET text == engine.text
            result == engine.ret.result
            has(K) == text \cap K # {}
            zero == has({"found 0 mutants to test",
                         "no mutants found under the active filters"})
            timeout == ~zero /\ has({"timeout"})
            unviable == ~zero /\ ~timeout /\ has({"unviable"})
            survived == ~zero /\ ~timeout /\ ~unviable /\ has({"survived", "missed"})
            killed == /\ ~zero /\ ~timeout /\ ~unviable /\ ~survived
                      /\ has({"killed", "caught"})
            none == ~zero /\ ~has({"timeout", "unviable", "survived", "missed",
                                   "killed", "caught"})
        IN /\ zero => result = ErrorOutcome(text)
           /\ timeout => result = Outcome("Timeout")
           /\ unviable => result = Outcome("Unviable")
           /\ survived => result = Outcome("Survived")
           /\ killed => result = Outcome("Killed")
           /\ (none /\ engine.status = 0) => result = Outcome("Killed")
           /\ (none /\ engine.status # 0) => result = ErrorOutcome(text)

\* a failed command whose text holds survived, killed and caught was
\* classified Survived
C24_Witness ==
    /\ engine.pc = "returned"
    /\ engine.status = 1
    /\ engine.text = {"survived", "killed", "caught"}
    /\ engine.ret = EngineOk(Outcome("Survived"))

\* ---------------------------------------------------------------- handler
\* C25: when the installation of the signal handler fails, every run_new,
\* resume_run and rerun_survivors of the process returns the Signal error at
\* once: no step leaves the thread inside an invocation, changes the run root,
\* creates a run directory or calls the engine; set_handler is called exactly
\* once per process, by the first invocation.
C25_SignalFailureIsImmediate ==
    /\ [][INIT'.value = "failed" =>
            /\ pc' = "idle"
            /\ op' \in EntryPoints
            /\ ret' = ErrResult(0, "Signal")
            /\ runs' = runs
            /\ created' = created
            /\ execution' = execution]_vars
    /\ [](/\ INIT.calls <= 1
          /\ INIT.value = "unset" <=> INIT.calls = 0
          /\ INIT.value = "unset" <=> op = "none"
          /\ INIT.occupied => INIT.value # "ok"
          /\ INIT.value = "failed" => pc = "idle")

\* resume_run returned the Signal error on a run it would have resumed
C25_Witness ==
    /\ INIT.value = "failed"
    /\ INIT.calls = 1
    /\ op = "resume_run"
    /\ ret = ErrResult(0, "Signal")
    /\ IncompleteInRoot(1)
    /\ runs[1].log = RootLog(1)

\* ---------------------------------------------------------------- queries
\* the sequence holds its elements in strictly ascending order
StrictlyAscending(q) == \A i, j \in 1..Len(q) : i < j => q[i] < q[j]

\* C26: for every log, pending_mutants() of its snapshot holds exactly the
\* mutants in status Pending or Running and survivor_mutants() exactly those
\* in status Survived, each in strictly ascending id order, and no mutant is
\* in both.
C26_QueriesPartitionByStatus ==
    LET pending == pending_mutants(LogSnapshot)
        survivors == survivor_mutants(LogSnapshot)
    IN /\ \A m \in Ids :
             /\ (\E i \in 1..Len(pending) : pending[i] = m)
                   <=> LogSnapshot.mutants[m] \in {"Pending", "Running"}
             /\ (\E i \in 1..Len(survivors) : survivors[i] = m)
                   <=> LogSnapshot.mutants[m] = "Survived"
             /\ ~(m \in Range(pending) /\ m \in Range(survivors))
       /\ StrictlyAscending(pending)
       /\ StrictlyAscending(survivors)

\* a loaded log in which mutant 2 was discovered before mutant 1 and both
\* are unfinished
C26_Witness ==
    /\ Loaded
    /\ LogLines # <<>>
    /\ LogLines[1] = MutantDiscovered(2)
    /\ ret.snapshot.mutants[1] = "Running"
    /\ pending_mutants(ret.snapshot) = <<1, 2>>
    /\ survivor_mutants(ret.snapshot) = <<>>

\* the log holds a line that parses as an event of type t
HasEvent(log, t) == \E i \in 1..Len(log) : log[i].type = t

\* C27: for every log, the snapshot is completed exactly if a line of the log
\* parses as RunCompleted, and interrupted exactly if one parses as
\* RunInterrupted; a flag that is set after a prefix of the log is set after
\* the whole log.
C27_FlagsFollowEvents ==
    /\ LogSnapshot.completed <=> HasEvent(LogLines, "RunCompleted")
    /\ LogSnapshot.interrupted <=> HasEvent(LogLines, "RunInterrupted")
    /\ \A k \in 0..Len(LogLines) :
          LET prefix == replay_events(SubSeq(LogLines, 1, k))
          IN /\ prefix.completed => LogSnapshot.completed
             /\ prefix.interrupted => LogSnapshot.interrupted

\* a loaded log with RunInterrupted twice, then RunCompleted and RunResumed
C27_Witness ==
    /\ Loaded
    /\ LogLines = <<RunInterrupted, RunInterrupted, RunCompleted, RunResumed(0)>>
    /\ ret.snapshot.completed
    /\ ret.snapshot.interrupted

\* ---------------------------------------------------------------- determinism
\* what the lines of a log fix, stated without the replay loop: the run id
\* of the first RunStarted or RunResumed line
FirstRunId(log) ==
    LET S == {i \in 1..Len(log) : log[i].type \in {"RunStarted", "RunResumed"}}
    IN IF S = {} THEN "" ELSE log[CHOOSE i \in S : \A j \in S : i <= j].run_id

\* ... the status given by the last event concerning a discovered mutant
StatusIn(log, m) ==
    LET c == Concerning(log, m)
    IN IF ~\E i \in c : log[i].type = "MutantDiscovered" THEN "Absent"
       ELSE LET e == log[CHOOSE i \in c : \A j \in c : j <= i]
            IN CASE e.type = "MutantDiscovered" -> "Pending"
                 [] e.type = "MutantStarted" -> "Running"
                 [] OTHER -> e.outcome

\* ... and the number of lines that do not parse
MalformedCount(log) == Cardinality({i \in 1..Len(log) : log[i].type = "Malformed"})

C29_Original ==
    \A r \in 1..Len(runs) :
        (runs[r].file /\ replay_events(runs[r].log).completed) =>
            pending_mutants(replay_events(runs[r].log)) = <<>>

\* ---------------------------------------------------------------- orphans
\* run r held, before the invocation, a log without RunCompleted written
\* under the requested config
OrphanInRoot(r) ==
    /\ r \in 1..RootRuns
    /\ runs[r].file
    /\ ~HasEvent(RootLog(r), "RunCompleted")
    /\ SameConfig(r)

\* C30 (as stated): while the run root holds a run without RunCompleted
\* whose config matches, run_new creates no run directory and does not
\* discover, whatever the state of that run's mutants.
C30_Original ==
    (\E r \in 1..RootRuns : OrphanInRoot(r)) =>
        /\ Len(runs) = RootRuns
        /\ pc \notin {"discover", "filter", "discovered"}

\* ---------------------------------------------------------------- interrupts
\* C31 (as stated): once the flag is set while the loop of run_new,
\* resume_run or rerun_survivors is running, a mutant that is already started
\* is finished and its MutantFinished appended, the loop head reached next
\* starts no mutant, and the loop is left with RunInterrupted appended.
C31_Original ==
    [][/\ (INTERRUPTED /\ pc = "start") => pc' \in {"start", "exec", "idle"}
       /\ (INTERRUPTED /\ pc = "exec") => pc' \in {"exec", "artifacts", "idle"}
       /\ (INTERRUPTED /\ pc = "artifacts" /\ pc' = "poll") =>
              IsFinished(runs'[cur].log[Len(runs'[cur].log)], queue[idx])
       /\ (INTERRUPTED /\ pc = "poll") => pc' \in {"poll", "after", "idle"}
       /\ (INTERRUPTED /\ pc = "poll" /\ idx > 1 /\ pc' = "after") =>
              HasAppended("RunInterrupted")']_vars

\* C32 (as stated): an interrupt raised after run_new has begun (after its
\* flag reset) is never cleared by that invocation: while the invocation
\* goes on, also through the delegation to resume_run or rerun_survivors, a
\* set flag stays set.
C32_Original ==
    [][(INTERRUPTED /\ op = "run_new" /\ pc # "idle" /\ pc' # "idle") => INTERRUPTED']_vars

\* the mutants of a snapshot whose status is Running
RunningIn(snapshot) == {m \in Ids : snapshot.mutants[m] = "Running"}

\* C33 (as stated): the snapshot replayed from any log the controller has
\* produced, crashes and resumes included, has at most one Running mutant.
C33_Original ==
    \A r \in 1..Len(runs) :
        runs[r].file => Cardinality(RunningIn(replay_events(runs[r].log))) <= 1

\* C34: among the events one invocation appends, a MutantStarted is the last
\* event or is directly followed by the MutantFinished of the same mutant:
\* no other mutant is started and no RunInterrupted is recorded in between.
C34_NothingBetweenStartAndFinish ==
    \A i \in 1..Len(Appended) :
        (Appended[i].type = "MutantStarted" /\ i < Len(Appended)) =>
            IsFinished(Appended[i + 1], Appended[i].mutant_id)

\* an invocation that executed two mutants, was interrupted while the second
\* one executed, and has returned
C34_Witness ==
    /\ Returned
    /\ Len(Executed) = 2
    /\ Len(queue) = 3
    /\ HasAppended("RunInterrupted")
    /\ INTERRUPTED

\* the ids a snapshot holds
MutantsIn(snapshot) == {m \in Ids : snapshot.mutants[m] # "Absent"}

\* the `discovered` field of the RunStarted of a log
DiscoveredCount(log) ==
    LET i == CHOOSE j \in 1..Len(log) : log[j].type = "RunStarted" IN log[i].count

\* C35 (as stated): in every run whose log contains RunCompleted, the
\* snapshot holds as many mutants as the RunStarted event says were
\* discovered, and each of them is terminal; crashes during the
\* MutantDiscovered appends followed by a resume are included.
C35_Original ==
    \A r \in 1..Len(runs) :
        (runs[r].file /\ HasEvent(runs[r].log, "RunCompleted")) =>
            LET snapshot == replay_events(runs[r].log)
            IN /\ Cardinality(MutantsIn(snapshot)) = DiscoveredCount(runs[r].log)
               /\ \A m \in MutantsIn(snapshot) : is_terminal(snapshot.mutants[m])

\* statuses resume_run and rerun_survivors do not schedule
Settled == {"Killed", "Timeout", "Unviable", "Skipped", "Error"}

\* resume_run or rerun_survivors has replayed the log of an existing run
Continuing ==
    /\ op \in {"resume_run", "rerun_survivors"}
    /\ ~Delegating
    /\ cur \in 1..Len(runs)
    /\ runs[cur].file

\* every MutantFinished the invocation appended repeats the status the
\* mutant had on entry: the engine answered as it did before
EngineRepeated ==
    \A i \in 1..Len(Appended) :
        Appended[i].type = "MutantFinished" =>
            Appended[i].outcome = EntrySnapshot.mutants[Appended[i].mutant_id]

KeyOf(r) == parse_run_id_key(runs[r].name)

\* the runs with a key that were, before the invocation, resume candidates,
\* and those that were survivor re-test candidates
KeyIncomplete ==
    {r \in 1..KeyRuns : KeyOf(r).some /\ IsIncompleteRun([runs[r] EXCEPT !.log = RootLog(r)], config)}

KeyCompleted ==
    {r \in 1..KeyRuns :
        KeyOf(r).some /\ IsCompletedRunWithSurvivors([runs[r] EXCEPT !.log = RootLog(r)], config)}

\* the candidates of the scan that decides
KeyEligible == IF KeyIncomplete # {} THEN KeyIncomplete ELSE KeyCompleted

KeyTuple(r) == <<KeyOf(r).timestamp_ms, KeyOf(r).pid, KeyOf(r).sequence>>

\* numeric lexicographic order of triples
Greater(a, b) == \E i \in 1..3 : a[i] > b[i] /\ \A j \in 1..(i - 1) : a[j] = b[j]

DistinctKeys(S) == \A a, b \in S : a # b => KeyTuple(a) # KeyTuple(b)

\* run_new has chosen an existing run directory
Chosen == cur \in 1..KeyRuns

\* C37: run_new chooses an existing run exactly if an eligible run with a
\* key exists; the chosen run is eligible and, when the keys of the eligible
\* runs are pairwise distinct, its (timestamp_ms, pid, sequence) key is
\* numerically lexicographically greater than that of every other eligible
\* run, whatever order read_dir yields; a directory whose name has no key is
\* never chosen and its log is never appended to.
C37_NewestKeyIsChosen ==
    LET eligible == KeyEligible
    IN /\ (cur # 0 /\ ~Chosen) => eligible = {}
       /\ Chosen =>
             /\ KeyOf(cur).some
             /\ cur \in eligible
             /\ DistinctKeys(eligible) =>
                   \A q \in eligible \ {cur} : Greater(KeyTuple(cur), KeyTuple(q))
       /\ \A r \in 1..KeyRuns : ~KeyOf(r).some => runs[r].log = RootLog(r)

\* run_new returned from a run chosen among two resume candidates whose keys
\* have the same timestamp, next to a directory without a key whose log is
\* that of a resume candidate
C37_Witness ==
    /\ Chosen
    /\ Returned
    /\ Cardinality(KeyIncomplete) = 2
    /\ \A q \in KeyIncomplete : KeyOf(q).timestamp_ms = 9
    /\ \E r \in 1..KeyRuns : ~KeyOf(r).some /\ Len(RootLog(r)) = 4

\* ConfigSpec: the filter and timeout run r persisted, a run without
\* persisted config counting as filter none, timeout none
Persisted(r) ==
    LET c == RootSnapshot(r).config IN IF c = NoConfig THEN DefaultConfig ELSE c

\* the runs of the root whose persisted filter or timeout differs from the
\* requested one
Differing == {r \in 1..RootRuns : Persisted(r) # config}

\* C38: run_new never chooses a run whose persisted filter or timeout differs
\* from the requested config and appends nothing to its log; when every run
\* of the root differs, run_new delegates to neither resume_run nor
\* rerun_survivors, works on a run directory it created, and the logs of all
\* existing runs stay as they were.
C38_IncompatibleRunsAreLeftAlone ==
    LET differing == Differing
    IN /\ \A r \in differing : cur # r /\ runs[r].log = RootLog(r)
       /\ differing = 1..RootRuns =>
             /\ ~Delegating
             /\ op \in {"none", "run_new"}
             /\ cur # 0 => cur = RootRuns + 1 /\ Len(runs) = RootRuns + 1

\* run_new with a filter completed a fresh run next to a resumable run
\* without persisted config and one with another timeout
C38_Witness ==
    /\ Differing = 1..RootRuns
    /\ RootSnapshot(1).config = NoConfig
    /\ RootSnapshot(2).config.filter = config.filter
    /\ ~RootSnapshot(2).completed
    /\ Returned
    /\ ret.run = RootRuns + 1
    /\ ret.snapshot.completed

\* FreshSpec: run_new works on the run directory it created and has applied
\* the filter
OnFreshRun ==
    /\ op = "run_new"
    /\ cur \in 1..Len(runs)
    /\ pc \notin {"discover", "filter"}

\* the filter string occurs in the id, the label or the selector of mutant m
\* (every mutant passes when no filter is set)
PassesFilter(m) ==
    \/ config.filter = "None"
    \/ \E field \in {MutantText(m).id, MutantText(m).label, MutantText(m).selector} :
          \E i, j \in 1..Len(field) : SubSeq(field, i, j) = FilterText(config.filter)

\* q holds exactly the elements of p that pass the filter, in the order of p
FilteredFrom(q, p) ==
    /\ \A m \in Range(p) : m \in Range(q) <=> PassesFilter(m)
    /\ Range(q) \subseteq Range(p)
    /\ Len(q) = Cardinality(Range(q))
    /\ \A a, b \in Range(q) :
          PositionIn(q, a) < PositionIn(q, b) <=> PositionIn(p, a) < PositionIn(p, b)

\* C39: on the fresh-run path the first append is RunStarted, made when the
\* discovered vector has been reduced to the mutants that pass the substring
\* filter on id, label or selector, in discovery order; the log then holds
\* one MutantDiscovered per such mutant in that order, directly after
\* RunStarted; anything else is appended only after the last of them, and
\* the mutants started are a prefix of that vector: in discovery order, none
\* twice, no MutantStarted before the last MutantDiscovered.
C39_DiscoveredBeforeExecuted ==
    /\ [][(pc = "filter" /\ pc' = "discovered") =>
             /\ FilteredFrom(queue', queue)
             /\ runs[cur].log = <<>>
             /\ runs'[cur].log = <<RunStarted(Len(queue'), config)>>]_vars
    /\ [](OnFreshRun =>
             LET d == Len(DiscoveredIds(CurLog))
             IN /\ CurLog # <<>> => CurLog[1].type = "RunStarted"
                /\ DiscoveredIds(CurLog) = SubSeq(queue, 1, d)
                /\ \A i \in 2..(d + 1) : CurLog[i].type = "MutantDiscovered"
                /\ Len(CurLog) > d + 1 => d = Len(queue)
                /\ Executed = SubSeq(queue, 1, Len(Executed))
                /\ \A i \in 1..Len(CurLog) : CurLog[i].type = "MutantStarted" => i > d + 1)

\* run_new with the filter "add" completed a run of the two mutants that
\* hold it, one in the selector and one in the label, executed in the order
\* in which they were discovered
C39_Witness ==
    /\ OnFreshRun
    /\ Returned
    /\ config.filter = "add"
    /\ queue = <<2, 1>>
    /\ Executed = queue
    /\ ret.snapshot.completed

\* line i of the log is a MutantStarted or MutantFinished whose mutant id no
\* earlier line discovered (in particular one that no line discovers)
Undiscovered(log, i) ==
    /\ log[i].type \in {"MutantStarted", "MutantFinished"}
    /\ ~\E j \in 1..(i - 1) :
          log[j].type = "MutantDiscovered" /\ log[j].mutant_id = log[i].mutant_id

\* the log without those lines
RECURSIVE WithoutUndiscovered(_, _)
WithoutUndiscovered(log, i) ==
    IF i > Len(log) THEN <<>>
    ELSE IF Undiscovered(log, i) THEN WithoutUndiscovered(log, i + 1)
    ELSE <<log[i]>> \o WithoutUndiscovered(log, i + 1)

\* C40: replaying a log gives the snapshot the log gives without its
\* MutantStarted and MutantFinished lines for undiscovered ids: such a line
\* adds no mutant, changes no mutant, flag or counter of malformed lines,
\* and replay does not fail on it.
C40_UndiscoveredIdsAreIgnored ==
    /\ replay_events(LogLines) = replay_events(WithoutUndiscovered(LogLines, 1))
    /\ (\A i \in 1..Len(LogLines) : LogLines[i].type # "Undecodable") => ~replay_fails(LogLines)

\* a log with a MutantFinished and a MutantStarted for mutant 2, which is
\* never discovered, around the discovery of mutant 1
C40_Witness ==
    /\ Len(LogLines) = 4
    /\ LogLines[1] = MutantFinished(2, "Killed")
    /\ LogLines[2] = MutantDiscovered(1)
    /\ LogLines[3] = MutantStarted(2)
    /\ LogLines[4] = MutantStarted(1)
    /\ LogSnapshot.mutants[2] = "Absent"
    /\ LogSnapshot.mutants[1] = "Running"
    /\ LogSnapshot.malformed_lines = 0

====
